---- MODULE Spec2Model ----
(***************************************************************************)
(* Model of the high-level ORAS client (packages/oras-client/src/          *)
(* high-level.ts): artifact assembly (pushArtifact), resolution and        *)
(* materialisation (pullArtifact, pullArtifactStreams,                     *)
(* pullManifestForPlatform) and copy (copyArtifact), running against a     *)
(* registry reached through the native transport client.                   *)
(*                                                                         *)
(* One client runs one operation at a time.  Every `await` of the source   *)
(* is a step: an action is the completion of the awaited call followed by  *)
(* the synchronous code up to the next await.                              *)
(***************************************************************************)
EXTENDS Integers, Sequences, FiniteSets, TLC

\* ------------------------------------------------------------------ bounds
MaxFiles == 2    \* FileLayers in one pushArtifact call
MaxFaults == 1   \* transport calls that fail with a network fault

\* ------------------------------------------------------------ value helpers
\* An optional JS value (possibly `undefined`): the empty set or a singleton.
None == {}
Some(x) == {x}
The(o) == CHOOSE x \in o : TRUE

\* A JS string that the code splits or joins on "/" is a sequence of
\* components; the empty string is the empty sequence.
Str(s) == <<s>>
EmptyStr == <<>>
IsFalsy(s) == s = EmptyStr

RECURSIVE ByteCode(_)
ByteCode(b) ==
  IF b = <<>> THEN 0
  ELSE (ByteCode(SubSeq(b, 1, Len(b) - 1)) * 257 + b[Len(b)] + 1) % 1000003

\* crypto.createHash('sha256').update(data).digest('hex'), prefixed "sha256:".
\* The hash is collision free on the byte strings of the model.
Sha256(data) == [alg |-> "sha256", hex |-> ByteCode(data)]

\* digest.replace('sha256:', '')
StripSha256Prefix(digest) == Str(ToString(digest.hex))

TitleKey == "org.opencontainers.image.title"
OctetStream == "application/octet-stream"
EmptyConfigType == "application/vnd.oci.empty.v1+json"
ManifestType == "application/vnd.oci.image.manifest.v1+json"
IndexType == "application/vnd.oci.image.index.v1+json"

\* Record<string,string> objects.
EmptyMap == [k \in {} |-> EmptyStr]
MapSet(m, k, v) == [x \in DOMAIN m \cup {k} |-> IF x = k THEN v ELSE m[x]]

\* path.basename(p)
Basename(p) == IF p = <<>> THEN EmptyStr ELSE <<p[Len(p)]>>

RECURSIVE Normalize(_)
\* path.normalize: "." and empty components dropped, ".." pops a component.
Normalize(p) ==
  IF p = <<>> THEN <<>>
  ELSE LET front == Normalize(SubSeq(p, 1, Len(p) - 1))
           last == p[Len(p)]
       IN  IF last = "." \/ last = "" THEN front
           ELSE IF last = ".."
                THEN IF front = <<>> \/ front[Len(front)] = ".."
                     THEN front \o <<"..">>
                     ELSE SubSeq(front, 1, Len(front) - 1)
                ELSE front \o <<last>>

\* path.join(dir, name)
PathJoin(dir, name) == Normalize(dir \o name)
Dirname(p) == SubSeq(p, 1, Len(p) - 1)

\* ------------------------------------------------------------- references
\* An image reference "a/b:tag" or "a/b@digest": the "/"-separated name, the
\* tag and the digest.
TagRef(path, tag) == [path |-> path, tag |-> Some(Str(tag)), digest |-> None]
RefA == TagRef(<<"app">>, "v1")
RefB == TagRef(<<"reg", "copy">>, "v1")
RefMulti == TagRef(<<"idx">>, "multi")
RefEmptyIndex == TagRef(<<"idx">>, "empty")
RefBad == TagRef(<<"idx">>, "bad")
RefNewIndex == TagRef(<<"idx">>, "new")
\* A reference with a registry host before the repository: "reg/idx:multi".
RefRegIndex == TagRef(<<"reg", "idx">>, "multi")
RefSwapped == TagRef(<<"idx">>, "swapped")
RefOutside == TagRef(<<"idx">>, "outside")

\* The repository a reference names, as the transport resolves it.
Repo(ref) == ref.path

\* ---------------------------------------------------------------- documents
\* A JSON document of the registry: every key is optional.
Doc(schemaVersion, mediaType, config, layers, manifests, annotations, artifactType) ==
  [schemaVersion |-> schemaVersion, mediaType |-> mediaType, config |-> config,
   layers |-> layers, manifests |-> manifests, annotations |-> annotations,
   artifactType |-> artifactType]

\* OciDescriptor; `annotations` holds an object reference while in memory and
\* the map itself in a document.
Descriptor(mediaType, digest, size, annotations, platform) ==
  [mediaType |-> mediaType, digest |-> digest, size |-> size,
   annotations |-> annotations, urls |-> None, platform |-> platform]

Platform(os, architecture, variant) ==
  [os |-> os, architecture |-> architecture, variant |-> variant]
LinuxAmd64 == Platform("linux", "amd64", None)
LinuxArm64 == Platform("linux", "arm64", None)
WindowsAmd64 == Platform("windows", "amd64", None)
Platforms == {LinuxAmd64, LinuxArm64, WindowsAmd64}

\* JSON text: well-formed text carries the document it denotes.
JsonText(doc) == [malformed |-> FALSE, val |-> Some(doc)]
MalformedJson == [malformed |-> TRUE, val |-> None]

\* JSON.stringify(obj): the object graph as it is at the time of the call,
\* every object reference replaced by the object's current content and every
\* `undefined` property left out.
StringifyDescriptor(d, h) ==
  [mediaType |-> d.mediaType, digest |-> d.digest, size |-> d.size,
   annotations |-> {h[o] : o \in d.annotations}, urls |-> None,
   platform |-> d.platform]
JsonStringify(obj, h) ==
  JsonText(Doc(obj.schemaVersion, obj.mediaType,
               {StringifyDescriptor(d, h) : d \in obj.config},
               {[i \in 1..Len(s) |-> StringifyDescriptor(s[i], h)] : s \in obj.layers},
               {[i \in 1..Len(s) |-> StringifyDescriptor(s[i], h)] : s \in obj.manifests},
               {h[o] : o \in obj.annotations},
               obj.artifactType))

\* JSON.parse(text) succeeds on well-formed text only.
JsonParses(text) == ~text.malformed
JsonParse(text) == The(text.val)

\* Variants of the index test: a truthiness test of manifests.length, and no
\* test at all.
HasNonEmptyManifests(doc) == doc.manifests # None /\ The(doc.manifests) # <<>>
HasManifestsNever(doc) == FALSE
\* 'manifests' in manifest
HasManifestsField(doc) == doc.manifests # None

\* ------------------------------------------------------------------- state
VARIABLES
  blobs,    \* registry: the blobs of each repository, {[repo, digest, data]}
  tagged,   \* registry: the manifest text each tag points to, {[repo, tag, text]}
  stored,   \* registry: every manifest text a repository holds, {[repo, text]}
  files,    \* local file system: path -> bytes
  dirs,     \* local file system: the directories
  heap,     \* JS heap: object reference -> Record<string,string>
  op,       \* the operation in progress (its arguments), or NoOp
  pc,       \* the await the operation is suspended at, or "idle"
  loc,      \* the operation's local variables
  log,      \* transport calls the operation has completed, in order
  hist,     \* the operations that have returned or thrown, in order
  faults    \* network faults so far

vars == <<blobs, tagged, stored, files, dirs, heap, op, pc, loc, log, hist, faults>>
registry == <<blobs, tagged, stored>>
filesystem == <<files, dirs>>

\* ------------------------------------------------- local files and inputs
PathAX == <<"a", "x.txt">>
PathBX == <<"b", "x.txt">>
PathY == <<"y.bin">>
PathMissing == <<"missing.txt">>
OutDir == <<"out">>

\* 'Hello from ORAS test 1!', the content of the test fixture test-file-1.txt
HelloBytes ==
  <<72, 101, 108, 108, 111, 32, 102, 114, 111, 109, 32, 79, 82, 65, 83, 32,
    116, 101, 115, 116, 32, 49, 33>>

InitialFiles == (PathAX :> HelloBytes) @@ (PathBX :> <<0, 255>>) @@ (PathY :> <<>>)
InitialDirs == {<<>>, <<"a">>, <<"b">>}

\* Objects the caller owns and passes in as annotations.
CallerObj == 1
OptionsObj == 2
ConfigObj == 3
CallerObjs == {CallerObj, OptionsObj, ConfigObj}
InitialHeap ==
  (CallerObj :> ("k" :> Str("v"))) @@ (OptionsObj :> ("note" :> Str("n")))
    @@ (ConfigObj :> ("c" :> Str("1")))

FileLayer(path, mediaType, annotations, title) ==
  [path |-> path, mediaType |-> mediaType, annotations |-> annotations, title |-> title]

\* The FileLayers a caller passes: two files with the same base name, two
\* FileLayers that share one annotations object, a file with an explicit
\* title and media type, an empty file, a path that does not exist.
FileLayers ==
  { FileLayer(PathAX, None, Some(CallerObj), None),
    FileLayer(PathBX, Some("text/plain"), None, None),
    FileLayer(PathY, None, Some(CallerObj), Some(Str("data.bin"))),
    FileLayer(PathMissing, None, None, None) }

RECURSIVE SeqsUpTo(_, _)
SeqsUpTo(S, n) ==
  IF n = 0 THEN {<<>>}
  ELSE LET shorter == SeqsUpTo(S, n - 1)
       IN  shorter \cup {Append(s, x) : s \in {t \in shorter : Len(t) = n - 1}, x \in S}
FileLists == SeqsUpTo(FileLayers, MaxFiles)

PushArtifactOptions(artifactType, annotations, configMediaType, configAnnotations) ==
  [artifactType |-> artifactType, annotations |-> annotations,
   configMediaType |-> configMediaType, configAnnotations |-> configAnnotations]
\* const opts = options || {}
NoOptions == PushArtifactOptions(None, None, None, None)
ExampleArtifactType == "application/vnd.example.workflow.v1"
ExampleConfigType == "application/vnd.example.config.v1+json"
OptionsGiven ==
  {NoOptions,
   PushArtifactOptions(Some(ExampleArtifactType), Some(OptionsObj),
                       Some(ExampleConfigType), Some(ConfigObj))}

\* ------------------------------------------------ registry behind transport
RECURSIVE DescriptorsCode(_)
DescriptorsCode(s) ==
  IF s = <<>> THEN 7
  ELSE (DescriptorsCode(SubSeq(s, 1, Len(s) - 1)) * 31 + s[Len(s)].digest.hex + 1) % 1000003

TextCode(text) ==
  IF text.malformed THEN 0
  ELSE LET d == The(text.val)
           l == IF d.layers = None THEN 1 ELSE DescriptorsCode(The(d.layers))
           m == IF d.manifests = None THEN 2 ELSE DescriptorsCode(The(d.manifests))
           c == IF d.config = None THEN 3 ELSE The(d.config).digest.hex
       IN  (l * 1009 + m * 31 + c + Cardinality(d.annotations) + Cardinality(d.artifactType)) % 1000003

\* The digest of a manifest's bytes.
ManifestDigest(text) == [alg |-> "sha256", hex |-> TextCode(text)]
\* The number of bytes of a manifest's text.
TextLen(text) == (TextCode(text) % 9973) + 2

SeedConfig == <<123, 125>>
SeedLayerA == <<1>>
SeedLayerB == <<2>>
SeedManifest(layers) ==
  JsonText(Doc(Some(2), Some(ManifestType),
               Some(Descriptor(EmptyConfigType, Sha256(SeedConfig), Len(SeedConfig), None, None)),
               Some(layers), None, None, None))
\* A layer some other tool pushed, with a title or with no annotations.
SeedLayer(data, title) ==
  Descriptor(OctetStream, Sha256(data), Len(data), {TitleKey :> t : t \in title}, None)
SeedManifestA == SeedManifest(<<SeedLayer(SeedLayerA, None), SeedLayer(SeedLayerB, Some(Str("b.bin")))>>)
SeedManifestB == SeedManifest(<<SeedLayer(SeedLayerB, Some(Str("b.bin")))>>)
\* A manifest whose only layer is titled "../escape.txt".
SeedManifestOutside == SeedManifest(<<SeedLayer(SeedLayerA, Some(<<"..", "escape.txt">>))>>)
SeedEntry(text, platform) ==
  Descriptor(ManifestType, ManifestDigest(text), TextLen(text), None, Some(platform))
\* An index some other tool pushed: one manifest per platform.
SeedIndex ==
  JsonText(Doc(Some(2), Some(IndexType), None, None,
               Some(<<SeedEntry(SeedManifestA, LinuxAmd64),
                      SeedEntry(SeedManifestB, LinuxArm64)>>),
               None, None))
\* The same two manifests, the entry of the host's platform second.
SeedIndexSwapped ==
  JsonText(Doc(Some(2), Some(IndexType), None, None,
               Some(<<SeedEntry(SeedManifestB, LinuxArm64),
                      SeedEntry(SeedManifestA, LinuxAmd64)>>),
               None, None))
SeedEmptyIndex == JsonText(Doc(Some(2), Some(IndexType), None, None, Some(<<>>), None, None))

InitialBlobs ==
  {[repo |-> Repo(RefMulti), digest |-> Sha256(d), data |-> d] :
     d \in {SeedConfig, SeedLayerA, SeedLayerB}}
InitialTagged ==
  { [repo |-> Repo(RefMulti), tag |-> The(RefMulti.tag), text |-> SeedIndex],
    [repo |-> Repo(RefEmptyIndex), tag |-> The(RefEmptyIndex.tag), text |-> SeedEmptyIndex],
    [repo |-> Repo(RefBad), tag |-> The(RefBad.tag), text |-> MalformedJson],
    [repo |-> Repo(RefRegIndex), tag |-> The(RefRegIndex.tag), text |-> SeedIndex],
    [repo |-> Repo(RefSwapped), tag |-> The(RefSwapped.tag), text |-> SeedIndexSwapped],
    [repo |-> Repo(RefOutside), tag |-> The(RefOutside.tag), text |-> SeedManifestOutside] }
InitialStored ==
  {[repo |-> Repo(RefMulti), text |-> t] :
     t \in {SeedIndex, SeedIndexSwapped, SeedEmptyIndex, SeedManifestA, SeedManifestB,
             SeedManifestOutside, MalformedJson}}
    \cup {[repo |-> Repo(RefRegIndex), text |-> t] : t \in {SeedIndex, SeedManifestA, SeedManifestB}}

\* pullManifest(ref): the text the tag points to, or the stored text with the
\* digest the reference gives; nothing when the registry has none.
ManifestAt(ref) ==
  IF ref.digest # None
  THEN LET found == {s \in stored : s.repo = Repo(ref) /\ ManifestDigest(s.text) = The(ref.digest)}
       IN  IF found = {} THEN None ELSE Some((CHOOSE s \in found : TRUE).text)
  ELSE LET found == {t \in tagged : t.repo = Repo(ref) /\ Some(t.tag) = ref.tag}
       IN  IF found = {} THEN None ELSE Some((CHOOSE t \in found : TRUE).text)

\* The platform the transport resolves an index to (the host's).
CurrentPlatform == LinuxAmd64

\* pullImageManifest(ref): an image manifest as it is, an index resolved to
\* the entry of the current platform.
ImageManifestAt(ref) ==
  LET top == ManifestAt(ref)
  IN  IF top = None \/ The(top).malformed THEN None
      ELSE LET d == JsonParse(The(top))
           IN  IF d.manifests = None THEN top
               ELSE LET es == The(d.manifests)
                        hit == {k \in 1..Len(es) : es[k].platform = Some(CurrentPlatform)}
                    IN  IF hit = {} THEN None
                        ELSE ManifestAt([path |-> ref.path, tag |-> None,
                                         digest |-> Some(es[CHOOSE k \in hit : \A j \in hit : k <= j].digest)])

\* pullBlob(ref, digest)
BlobAt(ref, digest) ==
  LET found == {b \in blobs : b.repo = Repo(ref) /\ b.digest = digest}
  IN  IF found = {} THEN None ELSE Some((CHOOSE b \in found : TRUE).data)

\* pushBlob(ref, data, digest): the registry verifies the digest; a blob it
\* already holds is left as it is.
BlobAccepted(data, digest) == Sha256(data) = digest
BlobsWith(ref, data, digest) ==
  blobs \cup {[repo |-> Repo(ref), digest |-> digest, data |-> data]}

\* pushManifest(ref, text): the tag now points to the text.
TaggedWith(ref, text) ==
  {t \in tagged : ~(t.repo = Repo(ref) /\ Some(t.tag) = ref.tag)}
    \cup {[repo |-> Repo(ref), tag |-> The(ref.tag), text |-> text]}
StoredWith(ref, text) == stored \cup {[repo |-> Repo(ref), text |-> text]}

\* One completed transport call.
Call(name, ref, digest, data, text, ok) ==
  [call |-> name, ref |-> ref, digest |-> digest, data |-> data, text |-> text, ok |-> ok]

\* --------------------------------------------------- operations: plumbing
NoRef == [path |-> <<>>, tag |-> None, digest |-> None]
Operation(name, ref, target, fileLayers, opts, outputDir, platform) ==
  [name |-> name, ref |-> ref, target |-> target, files |-> fileLayers, opts |-> opts,
   outputDir |-> outputDir, platform |-> platform,
   \* the registry as the operation found it
   before |-> [blobs |-> blobs, tagged |-> tagged],
   \* the caller's objects and the file system as the operation found them
   given |-> [heap |-> heap, files |-> files, dirs |-> dirs],
   \* the CLI command that made the call, and what it has printed
   cli |-> "none", out |-> <<>>,
   \* manifests: ManifestDescriptor[] of pushManifestIndex
   manifests |-> <<>>,
   \* data: Buffer of pushBlob, digest: string of pullBlob
   data |-> None, digest |-> None,
   \* platformArtifacts: Array<[Platform, FileLayer[]]> of pushArtifactMultiPlatform
   platformArtifacts |-> <<>>]
NoOp == [name |-> "none", ref |-> NoRef, target |-> NoRef, files |-> <<>>, opts |-> NoOptions,
         outputDir |-> <<>>, platform |-> None,
         before |-> [blobs |-> {}, tagged |-> {}],
         given |-> [heap |-> <<>>, files |-> <<>>, dirs |-> {}],
         cli |-> "none", out |-> <<>>, manifests |-> <<>>, data |-> None, digest |-> None,
         platformArtifacts |-> <<>>]

NoLocals ==
  [i |-> 1, content |-> <<>>, layerDescriptors |-> <<>>, manifestJson |-> None,
   resolvedManifest |-> None, downloadedFiles |-> <<>>, streams |-> <<>>,
   \* pushArtifactMultiPlatform: the platform at hand and manifestDescriptors
   p |-> 1, manifestDescriptors |-> <<>>]

Result(digest, paths, text, streams) ==
  [digest |-> digest, paths |-> paths, text |-> text, streams |-> streams, data |-> None]
NoResult == Result(None, <<>>, None, <<>>)

Idle == pc = "idle"

\* The caller's sessions: any two operations one after the other, and the
\* workflow of the end-to-end test (push, copy, pull).
OpNames ==
  {"pushArtifact", "pullArtifact", "pullArtifactStreams", "copyArtifact",
   "pullManifestForPlatform"}
Workflow == <<"pushArtifact", "copyArtifact", "pullArtifact">>
\* The commands of the CLI, each a process of its own: one command, or a
\* push and then a command.
CliNames == {"oras push", "oras pull", "oras copy"}
CliSessions == {<<a>> : a \in CliNames} \cup {<<"oras push", b>> : b \in CliNames}
\* The multi-platform commands; pull-platform makes two client calls.
PlatformCliSessions ==
  {<<"oras push-multiplatform">>, <<"oras manifest-index create">>,
   <<"oras pull-platform", "oras pull-platform">>}
\* An index is pushed, and then pulled.
IndexSessions ==
  {<<"pushManifestIndex", b>> : b \in {"pullManifestForPlatform", "pullArtifact"}}
\* Blobs are pushed and pulled on their own, before and after other calls.
BlobSessions ==
  {<<"pushBlob", "pullBlob">>, <<"pushBlob", "pushBlob">>, <<"pullBlob", "pushBlob">>,
   <<"pushArtifact", "pushBlob">>}
\* Platform artifacts are pushed, and the index is asked for a platform.
MultiPlatformSessions ==
  {<<"pushArtifactMultiPlatform">>, <<"pushArtifactMultiPlatform", "pullManifestForPlatform">>}
Sessions ==
  {<<a, b>> : a \in OpNames, b \in OpNames} \cup {Workflow} \cup CliSessions
    \cup IndexSessions \cup BlobSessions \cup MultiPlatformSessions \cup PlatformCliSessions
SessionPrefixes == UNION {{SubSeq(w, 1, n) : n \in 1..Len(w)} : w \in Sessions}
Invoker(o) == IF o.cli = "none" THEN o.name ELSE o.cli
Invoked == [j \in 1..Len(hist) |-> Invoker(hist[j].op)]

\* The objects of the caller: what an earlier operation allocated is gone.
CallerHeap == [r \in CallerObjs |-> heap[r]]

\* A new operation starts, with the heap h: the locals of the last one are
\* gone.
BeginWith(o, first, h) ==
  /\ Idle
  /\ Append(Invoked, Invoker(o)) \in SessionPrefixes
  /\ op' = [o EXCEPT !.given.heap = h]
  /\ pc' = first
  /\ loc' = NoLocals
  /\ log' = <<>>
  /\ heap' = h
  /\ UNCHANGED <<registry, filesystem, hist, faults>>
Begin(o, first) == BeginWith(o, first, CallerHeap)

\* The lines a command prints once its client call has returned.
SuccessLines(o, ret) ==
  CASE o.cli = "oras push" -> <<Str("Pushed"), Str("Artifact Type"), Str("Files")>>
    [] o.cli = "oras pull" ->
         <<Str("Pulled"), Str("Downloaded")>> \o [i \in 1..Len(ret.paths) |-> Basename(ret.paths[i])]
    [] o.cli = "oras push-multiplatform" ->
         <<Str("Pushed multi-platform artifact"), Str("Platforms")>>
           \o [i \in 1..Len(o.platformArtifacts) |-> Str(o.platformArtifacts[i][1].os)]
    [] o.cli = "oras manifest-index create" -> <<Str("Created manifest index"), Str("Platforms")>>
    [] o.cli = "oras pull-platform" -> <<Str("Downloaded")>>
    [] OTHER -> <<Str("Copied successfully")>>
FailureLine(o) ==
  CASE o.cli \in {"oras push", "oras push-multiplatform"} -> Str("Push failed")
    [] o.cli \in {"oras pull", "oras pull-platform"} -> Str("Pull failed")
    [] o.cli = "oras manifest-index create" -> Str("Failed to create manifest index")
    [] OTHER -> Str("Copy failed")

\* Variant: the catch block prints the error and does not call process.exit.
CliOutcomeNoExit(o, ok, ret) ==
  IF o.cli = "none" THEN [exit |-> None, stdout |-> <<>>, stderr |-> <<>>]
  ELSE IF ok THEN [exit |-> Some(0), stdout |-> o.out \o SuccessLines(o, ret), stderr |-> <<>>]
  ELSE [exit |-> Some(0), stdout |-> o.out, stderr |-> <<FailureLine(o)>>]
\* The rest of a command's action once its try block has ended: the success
\* lines and a normal exit, or the catch block, console.error and
\* process.exit(1).
CliOutcome(o, ok, ret) ==
  IF o.cli = "none" THEN [exit |-> None, stdout |-> <<>>, stderr |-> <<>>]
  ELSE IF ok THEN [exit |-> Some(0), stdout |-> o.out \o SuccessLines(o, ret), stderr |-> <<>>]
  ELSE [exit |-> Some(1), stdout |-> o.out, stderr |-> <<FailureLine(o)>>]

Outcome(o, ok, err, ret, calls) ==
  [op |-> o, ok |-> ok, err |-> err, ret |-> ret, log |-> calls, cli |-> CliOutcome(o, ok, ret)]

\* The operation's promise settles.
Settle(ok, err, ret, calls) ==
  /\ hist' = Append(hist, Outcome(op, ok, err, ret, calls))
  /\ pc' = "idle"
  /\ op' = NoOp
  /\ loc' = NoLocals
  /\ log' = <<>>
Return(ret, calls) == Settle(TRUE, "none", ret, calls)
\* Variant: the error is caught and the operation returns normally.
ThrowSwallowed(err, calls) == Settle(TRUE, "none", NoResult, calls)
Throw(err, calls) == Settle(FALSE, err, NoResult, calls)

\* The awaited transport call fails in the network.
NetworkFault(call) ==
  /\ faults < MaxFaults
  /\ faults' = faults + 1
  /\ Throw("NetworkFault", Append(log, call))
  /\ UNCHANGED <<registry, filesystem, heap>>

\* --------------------------------------------- arguments of pushArtifact
MultiPlatform == op.name = "pushArtifactMultiPlatform"

\* `${imageRef}-${platform.os}-${platform.architecture}`: the text is appended
\* to the reference, which ends with its tag.
PlatformTag(imageRef, platform) ==
  [imageRef EXCEPT !.tag = {t \o <<platform.os, platform.architecture>> : t \in imageRef.tag}]

\* imageRef and files of the pushArtifact call in progress: the caller's, or
\* what pushArtifactMultiPlatform passes for the platform at hand.
PushImageRef ==
  IF MultiPlatform THEN PlatformTag(op.ref, op.platformArtifacts[loc.p][1]) ELSE op.ref
PushFiles == IF MultiPlatform THEN op.platformArtifacts[loc.p][2] ELSE op.files

\* ------------------------------------------------------------ pushArtifact
\* Variant: a missing media type is guessed from the file name.
LayerMediaTypeGuessed(fileLayer) ==
  IF fileLayer.mediaType = None \/ The(fileLayer.mediaType) = "" THEN "text/plain"
  ELSE The(fileLayer.mediaType)
\* fileLayer.mediaType || 'application/octet-stream'
LayerMediaType(fileLayer) ==
  IF fileLayer.mediaType = None \/ The(fileLayer.mediaType) = "" THEN OctetStream
  ELSE The(fileLayer.mediaType)

\* fileLayer.title || path.basename(filePath)
LayerTitle(fileLayer) ==
  IF fileLayer.title = None \/ IsFalsy(The(fileLayer.title)) THEN Basename(fileLayer.path)
  ELSE The(fileLayer.title)

\* A new object reference.
NewObj(h) == (CHOOSE r \in DOMAIN h : \A q \in DOMAIN h : q <= r) + 1
\* Variant: always a new object, the caller's annotations left out.
LayerAnnotationsFresh(fileLayer, h) == NewObj(h)
\* const annotations = fileLayer.annotations || {}: the caller's object, or a
\* new one.
LayerAnnotations(fileLayer, h) ==
  IF fileLayer.annotations = None THEN NewObj(h) ELSE The(fileLayer.annotations)

\* annotations['org.opencontainers.image.title'] = title
HeapWithTitle(fileLayer, h) ==
  LET a == LayerAnnotations(fileLayer, h)
      old == IF a \in DOMAIN h THEN h[a] ELSE EmptyMap
  IN  [r \in DOMAIN h \cup {a} |-> IF r = a THEN MapSet(old, TitleKey, LayerTitle(fileLayer)) ELSE h[r]]

\* Variant: a digest of other bytes than the content.
LayerDigestSalted(content) == Sha256(content \o <<0>>)
\* const hash = crypto.createHash('sha256'); hash.update(content);
\* const digest = `sha256:${hash.digest('hex')}`
LayerDigest(content) == Sha256(content)

\* Variant: a size that is not content.length.
LayerDescriptorWrongSize(fileLayer, data, h) ==
  LET a == LayerAnnotations(fileLayer, h)
  IN  Descriptor(LayerMediaType(fileLayer), LayerDigest(data), Len(data) + 1, Some(a), None)
\* The descriptor pushed onto layerDescriptors.
LayerDescriptor(fileLayer, data, h) ==
  LET a == LayerAnnotations(fileLayer, h)
      after == HeapWithTitle(fileLayer, h)
  IN  Descriptor(LayerMediaType(fileLayer), LayerDigest(data), Len(data),
                 IF DOMAIN after[a] # {} THEN Some(a) ELSE None, None)

\* Variant: unshift in place of push.
PushDescriptorFront(layerDescriptors, descriptor) == <<descriptor>> \o layerDescriptors
\* layerDescriptors.push(descriptor)
PushDescriptor(layerDescriptors, descriptor) == Append(layerDescriptors, descriptor)

\* Buffer.from('{}')
ConfigData == <<123, 125>>

\* Variant: a config media type of the caller's describes an empty config.
ConfigDescriptorOverridden(opts) ==
  IF opts.configMediaType = None \/ The(opts.configMediaType) = ""
  THEN Descriptor(EmptyConfigType, Sha256(ConfigData), Len(ConfigData), opts.configAnnotations, None)
  ELSE Descriptor(The(opts.configMediaType), Sha256(<<>>), 0, opts.configAnnotations, None)
\* const configDescriptor: OciDescriptor = {...}
ConfigDescriptor(opts) ==
  Descriptor(IF opts.configMediaType = None \/ The(opts.configMediaType) = ""
             THEN EmptyConfigType ELSE The(opts.configMediaType),
             Sha256(ConfigData), Len(ConfigData), opts.configAnnotations, None)

ImageManifest(opts, layerDescriptors) ==
  Doc(Some(2), Some(ManifestType), Some(ConfigDescriptor(opts)), Some(layerDescriptors),
      None, opts.annotations, opts.artifactType)

PushArtifactCall ==
  \E ref \in {RefA}, fileLayers \in FileLists, opts \in OptionsGiven :
    Begin(Operation("pushArtifact", ref, ref, fileLayers, opts, <<>>, None),
          IF fileLayers = <<>> THEN "push_config" ELSE "push_readFile")

\* Variant: a file that cannot be read is pushed as an empty layer.
PushArtifactReadFileLenient ==
  /\ pc = "push_readFile"
  /\ LET filePath == PushFiles[loc.i].path
     IN  loc' = [loc EXCEPT !.content = IF filePath \in DOMAIN files THEN files[filePath] ELSE <<>>]
  /\ pc' = "push_pushBlob"
  /\ UNCHANGED <<registry, filesystem, heap, faults, op, log, hist>>

\* await fs.readFile(filePath)
PushArtifactReadFile ==
  /\ pc = "push_readFile"
  /\ LET filePath == PushFiles[loc.i].path
     IN  IF filePath \in DOMAIN files
         THEN /\ loc' = [loc EXCEPT !.content = files[filePath]]
              /\ pc' = "push_pushBlob"
              /\ UNCHANGED <<op, log, hist>>
         ELSE Throw("FileNotFound", log)
  /\ UNCHANGED <<registry, filesystem, heap, faults>>

\* await this.client.pushBlob(imageRef, content, digest, auth), then the
\* descriptor of the layer.
PushArtifactPushBlob ==
  /\ pc = "push_pushBlob"
  /\ LET fileLayer == PushFiles[loc.i]
         digest == LayerDigest(loc.content)
         call(ok) == Call("pushBlob", PushImageRef, Some(digest), Some(loc.content), None, ok)
     IN  \/ NetworkFault(call(FALSE))
         \/ /\ ~BlobAccepted(loc.content, digest)
            /\ Throw("DigestRejected", Append(log, call(FALSE)))
            /\ UNCHANGED <<registry, filesystem, heap, faults>>
         \/ /\ BlobAccepted(loc.content, digest)
            /\ blobs' = BlobsWith(PushImageRef, loc.content, digest)
            /\ heap' = HeapWithTitle(fileLayer, heap)
            /\ loc' = [loc EXCEPT !.layerDescriptors = PushDescriptor(@, LayerDescriptor(fileLayer, loc.content, heap)),
                                  !.i = @ + 1]
            /\ log' = Append(log, call(TRUE))
            /\ pc' = IF loc.i < Len(PushFiles) THEN "push_readFile" ELSE "push_config"
            /\ UNCHANGED <<tagged, stored, filesystem, op, hist, faults>>

\* Variant: the config blob is described but never pushed.
PushArtifactSkipConfig ==
  /\ pc = "push_config"
  /\ pc' = "push_manifest"
  /\ UNCHANGED <<registry, filesystem, heap, faults, op, loc, log, hist>>

\* await this.client.pushBlob(imageRef, configData, configDigest, auth)
PushArtifactPushConfig ==
  /\ pc = "push_config"
  /\ LET digest == Sha256(ConfigData)
         call(ok) == Call("pushBlob", PushImageRef, Some(digest), Some(ConfigData), None, ok)
     IN  \/ NetworkFault(call(FALSE))
         \/ /\ ~BlobAccepted(ConfigData, digest)
            /\ Throw("DigestRejected", Append(log, call(FALSE)))
            /\ UNCHANGED <<registry, filesystem, heap, faults>>
         \/ /\ BlobAccepted(ConfigData, digest)
            /\ blobs' = BlobsWith(PushImageRef, ConfigData, digest)
            /\ log' = Append(log, call(TRUE))
            /\ pc' = "push_manifest"
            /\ UNCHANGED <<tagged, stored, filesystem, heap, op, loc, hist, faults>>

\* return this.client.pushManifest(imageRef, JSON.stringify(manifest), auth)
PushArtifactPushManifest ==
  /\ pc = "push_manifest"
  /\ LET text == JsonStringify(ImageManifest(op.opts, loc.layerDescriptors), heap)
         call(ok) == Call("pushManifest", PushImageRef, None, None, Some(text), ok)
     IN  \/ NetworkFault(call(FALSE))
         \/ /\ tagged' = TaggedWith(PushImageRef, text)
            /\ stored' = StoredWith(PushImageRef, text)
            /\ UNCHANGED <<blobs, filesystem, heap, faults>>
            /\ IF MultiPlatform
               THEN /\ log' = Append(log, call(TRUE))
                    /\ pc' = "multi_pullManifest"
                    /\ UNCHANGED <<op, loc, hist>>
               ELSE Return(Result(Some(ManifestDigest(text)), <<>>, None, <<>>),
                           Append(log, call(TRUE)))

\* ------------------------------------------------------------- pullArtifact
\* layer.annotations?.['org.opencontainers.image.title']
TitleAnnotation(layer) ==
  IF layer.annotations # None /\ TitleKey \in DOMAIN The(layer.annotations)
  THEN Some(The(layer.annotations)[TitleKey]) ELSE None

\* layer.annotations?.[title] || layer.digest.replace('sha256:', '')
LayerFilename(layer) ==
  IF TitleAnnotation(layer) # None /\ ~IsFalsy(The(TitleAnnotation(layer)))
  THEN The(TitleAnnotation(layer)) ELSE StripSha256Prefix(layer.digest)

RECURSIVE Prefixes(_)
Prefixes(p) == IF p = <<>> THEN {<<>>} ELSE {p} \cup Prefixes(Dirname(p))

PullRefs == {RefA, RefB, RefMulti, RefEmptyIndex, RefBad, RefNewIndex}

PullArtifactCall ==
  \E ref \in PullRefs \cup {RefOutside} :
    Begin(Operation("pullArtifact", ref, ref, <<>>, NoOptions, OutDir, None), "pull_manifest")

\* Lines 225-238 and 276-286, shared by pullArtifact and pullArtifactStreams:
\* await pullManifest(imageRef), JSON.parse, and the choice between the
\* document itself and a platform-aware pull.  `resolved` is the pc once
\* resolvedManifest is set.
ResolveFirstPull(resolved, second) ==
  LET got == ManifestAt(op.ref)
      call(ok) == Call("pullManifest", op.ref, None, None, got, ok)
  IN  /\ UNCHANGED <<registry, filesystem, heap>>
      /\ \/ NetworkFault(call(FALSE))
         \/ /\ got = None
            /\ Throw("ManifestNotFound", Append(log, call(FALSE)))
            /\ UNCHANGED faults
         \/ /\ got # None
            /\ ~JsonParses(The(got))
            /\ Throw("ManifestParseError", Append(log, call(TRUE)))
            /\ UNCHANGED faults
         \/ /\ got # None
            /\ JsonParses(The(got))
            /\ log' = Append(log, call(TRUE))
            /\ IF HasManifestsField(JsonParse(The(got)))
               THEN /\ pc' = second
                    /\ loc' = [loc EXCEPT !.manifestJson = got]
               ELSE /\ pc' = resolved
                    /\ loc' = [loc EXCEPT !.manifestJson = got,
                                          !.resolvedManifest = Some(JsonParse(The(got)))]
            /\ UNCHANGED <<op, hist, faults>>

\* await pullImageManifest(imageRef), JSON.parse
ResolveSecondPull(resolved) ==
  LET got == ImageManifestAt(op.ref)
      call(ok) == Call("pullImageManifest", op.ref, None, None, got, ok)
  IN  /\ UNCHANGED <<registry, filesystem, heap>>
      /\ \/ NetworkFault(call(FALSE))
         \/ /\ got = None
            /\ Throw("ManifestNotFound", Append(log, call(FALSE)))
            /\ UNCHANGED faults
         \/ /\ got # None
            /\ ~JsonParses(The(got))
            /\ Throw("ManifestParseError", Append(log, call(TRUE)))
            /\ UNCHANGED faults
         \/ /\ got # None
            /\ JsonParses(The(got))
            /\ log' = Append(log, call(TRUE))
            /\ pc' = resolved
            /\ loc' = [loc EXCEPT !.resolvedManifest = Some(JsonParse(The(got)))]
            /\ UNCHANGED <<op, hist, faults>>

PullArtifactPullManifest ==
  /\ pc = "pull_manifest"
  /\ ResolveFirstPull("pull_mkdir", "pull_imageManifest")

PullArtifactPullImageManifest ==
  /\ pc = "pull_imageManifest"
  /\ ResolveSecondPull("pull_mkdir")

\* await fs.mkdir(outputDir, { recursive: true }), then the loop's first
\* iteration begins.
PullArtifactMkdir ==
  /\ pc = "pull_mkdir"
  /\ UNCHANGED <<registry, heap, faults, files>>
  /\ IF \E d \in Prefixes(op.outputDir) : d \in DOMAIN files
     THEN /\ Throw("MkdirFailed", log)
          /\ UNCHANGED dirs
     ELSE /\ dirs' = dirs \cup Prefixes(op.outputDir)
          /\ LET manifest == The(loc.resolvedManifest)
             IN  IF manifest.layers = None
                 THEN Throw("TypeError", log)
                 ELSE IF The(manifest.layers) = <<>>
                 THEN Return(Result(None, <<>>, None, <<>>), log)
                 ELSE /\ pc' = "pull_pullBlob"
                      /\ UNCHANGED <<op, loc, log, hist>>

\* await this.client.pullBlob(imageRef, layer.digest, auth)
PullArtifactPullBlob ==
  /\ pc = "pull_pullBlob"
  /\ UNCHANGED <<registry, filesystem, heap>>
  /\ LET layer == The(The(loc.resolvedManifest).layers)[loc.i]
         got == BlobAt(op.ref, layer.digest)
         call(ok) == Call("pullBlob", op.ref, Some(layer.digest), got, None, ok)
     IN  \/ NetworkFault(call(FALSE))
         \/ /\ got = None
            /\ Throw("BlobNotFound", Append(log, call(FALSE)))
            /\ UNCHANGED faults
         \/ /\ got # None
            /\ loc' = [loc EXCEPT !.content = The(got)]
            /\ log' = Append(log, call(TRUE))
            /\ pc' = "pull_writeFile"
            /\ UNCHANGED <<op, hist, faults>>

\* await fs.writeFile(filePath, content); downloadedFiles.push(filePath)
PullArtifactWriteFile ==
  /\ pc = "pull_writeFile"
  /\ UNCHANGED <<registry, heap, faults, dirs>>
  /\ LET layers == The(The(loc.resolvedManifest).layers)
         filePath == PathJoin(op.outputDir, LayerFilename(layers[loc.i]))
         downloadedFiles == Append(loc.downloadedFiles, filePath)
     IN  IF Dirname(filePath) \notin dirs \/ filePath \in dirs
         THEN /\ Throw("WriteFailed", log)
              /\ UNCHANGED files
         ELSE /\ files' = [q \in DOMAIN files \cup {filePath} |->
                             IF q = filePath THEN loc.content ELSE files[q]]
              /\ IF loc.i < Len(layers)
                 THEN /\ loc' = [loc EXCEPT !.i = @ + 1, !.downloadedFiles = downloadedFiles]
                      /\ pc' = "pull_pullBlob"
                      /\ UNCHANGED <<op, log, hist>>
                 ELSE Return(Result(None, downloadedFiles, None, <<>>), log)

\* ------------------------------------------------------ pullArtifactStreams
\* Variant: a stream of a layer without a title is named by its digest.
LayerStreamNamed(layer, data) ==
  [data |-> data, mediaType |-> layer.mediaType, digest |-> layer.digest,
   annotations |-> layer.annotations, filename |-> Some(LayerFilename(layer))]
\* streams.push({data, mediaType, digest, annotations, filename})
LayerStream(layer, data) ==
  [data |-> data, mediaType |-> layer.mediaType, digest |-> layer.digest,
   annotations |-> layer.annotations, filename |-> TitleAnnotation(layer)]

PullArtifactStreamsCall ==
  \E ref \in PullRefs :
    Begin(Operation("pullArtifactStreams", ref, ref, <<>>, NoOptions, <<>>, None),
          "streams_manifest")

PullArtifactStreamsPullManifest ==
  /\ pc = "streams_manifest"
  /\ ResolveFirstPull("streams_resolved", "streams_imageManifest")

PullArtifactStreamsPullImageManifest ==
  /\ pc = "streams_imageManifest"
  /\ ResolveSecondPull("streams_resolved")

\* The synchronous code after resolution, up to the first pullBlob.
PullArtifactStreamsLoop ==
  /\ pc = "streams_resolved"
  /\ UNCHANGED <<registry, filesystem, heap, faults>>
  /\ LET manifest == The(loc.resolvedManifest)
     IN  IF manifest.layers = None THEN Throw("TypeError", log)
         ELSE IF The(manifest.layers) = <<>>
         THEN Return(Result(None, <<>>, None, <<>>), log)
         ELSE /\ pc' = "streams_pullBlob"
              /\ UNCHANGED <<op, loc, log, hist>>

\* await this.client.pullBlob(imageRef, layer.digest, auth); streams.push(...)
PullArtifactStreamsPullBlob ==
  /\ pc = "streams_pullBlob"
  /\ UNCHANGED <<registry, filesystem, heap>>
  /\ LET layers == The(The(loc.resolvedManifest).layers)
         layer == layers[loc.i]
         got == BlobAt(op.ref, layer.digest)
         call(ok) == Call("pullBlob", op.ref, Some(layer.digest), got, None, ok)
     IN  \/ NetworkFault(call(FALSE))
         \/ /\ got = None
            /\ Throw("BlobNotFound", Append(log, call(FALSE)))
            /\ UNCHANGED faults
         \/ /\ got # None
            /\ UNCHANGED faults
            /\ LET streams == Append(loc.streams, LayerStream(layer, The(got)))
               IN  IF loc.i < Len(layers)
                   THEN /\ loc' = [loc EXCEPT !.i = @ + 1, !.streams = streams]
                        /\ log' = Append(log, call(TRUE))
                        /\ UNCHANGED <<op, pc, hist>>
                   ELSE Return(Result(None, <<>>, None, streams), Append(log, call(TRUE)))

\* ------------------------------------------------------------ copyArtifact
CopyArtifactCall ==
  \E source \in {RefA, RefMulti, RefBad} :
    Begin(Operation("copyArtifact", source, RefB, <<>>, NoOptions, <<>>, None), "copy_manifest")

\* The digest the copy loop handles at step i: the layers in order, then the
\* config (manifest.config.digest).
CopyDigest(manifest, i) ==
  IF i <= Len(The(manifest.layers)) THEN The(manifest.layers)[i].digest
  ELSE The(manifest.config).digest

\* await pullManifest(sourceRef), JSON.parse, the index check, and the start
\* of the blob loop.
CopyArtifactPullManifest ==
  /\ pc = "copy_manifest"
  /\ UNCHANGED <<registry, filesystem, heap>>
  /\ LET got == ManifestAt(op.ref)
         call(ok) == Call("pullManifest", op.ref, None, None, got, ok)
     IN  \/ NetworkFault(call(FALSE))
         \/ /\ got = None
            /\ Throw("ManifestNotFound", Append(log, call(FALSE)))
            /\ UNCHANGED faults
         \/ /\ got # None
            /\ UNCHANGED faults
            /\ IF ~JsonParses(The(got))
               THEN Throw("ManifestParseError", Append(log, call(TRUE)))
               ELSE LET manifest == JsonParse(The(got))
                    IN  IF HasManifestsField(manifest)
                        THEN Throw("UnsupportedIndex", Append(log, call(TRUE)))
                        ELSE IF manifest.layers = None
                                  \/ (The(manifest.layers) = <<>> /\ manifest.config = None)
                        THEN Throw("TypeError", Append(log, call(TRUE)))
                        ELSE /\ loc' = [loc EXCEPT !.manifestJson = got,
                                                   !.resolvedManifest = Some(manifest)]
                             /\ log' = Append(log, call(TRUE))
                             /\ pc' = "copy_pullBlob"
                             /\ UNCHANGED <<op, hist>>

\* await this.client.pullBlob(sourceRef, digest, auth)
CopyArtifactPullBlob ==
  /\ pc = "copy_pullBlob"
  /\ UNCHANGED <<registry, filesystem, heap>>
  /\ LET digest == CopyDigest(The(loc.resolvedManifest), loc.i)
         got == BlobAt(op.ref, digest)
         call(ok) == Call("pullBlob", op.ref, Some(digest), got, None, ok)
     IN  \/ NetworkFault(call(FALSE))
         \/ /\ got = None
            /\ Throw("BlobNotFound", Append(log, call(FALSE)))
            /\ UNCHANGED faults
         \/ /\ got # None
            /\ loc' = [loc EXCEPT !.content = The(got)]
            /\ log' = Append(log, call(TRUE))
            /\ pc' = "copy_pushBlob"
            /\ UNCHANGED <<op, hist, faults>>

\* Variant: the blob is pulled from the source and never pushed to the target.
CopyArtifactSkipPushBlob ==
  /\ pc = "copy_pushBlob"
  /\ LET manifest == The(loc.resolvedManifest)
         layers == The(manifest.layers)
     IN  IF loc.i < Len(layers) + 1
         THEN /\ loc' = [loc EXCEPT !.i = @ + 1]
              /\ pc' = "copy_pullBlob"
         ELSE /\ pc' = "copy_pushManifest"
              /\ UNCHANGED loc
  /\ UNCHANGED <<registry, filesystem, heap, faults, op, log, hist>>

\* await this.client.pushBlob(targetRef, content, digest, auth), then the
\* next layer, the config, or the manifest.
CopyArtifactPushBlob ==
  /\ pc = "copy_pushBlob"
  /\ LET manifest == The(loc.resolvedManifest)
         layers == The(manifest.layers)
         digest == CopyDigest(manifest, loc.i)
         call(ok) == Call("pushBlob", op.target, Some(digest), Some(loc.content), None, ok)
     IN  \/ NetworkFault(call(FALSE))
         \/ /\ ~BlobAccepted(loc.content, digest)
            /\ Throw("DigestRejected", Append(log, call(FALSE)))
            /\ UNCHANGED <<registry, filesystem, heap, faults>>
         \/ /\ BlobAccepted(loc.content, digest)
            /\ blobs' = BlobsWith(op.target, loc.content, digest)
            /\ UNCHANGED <<tagged, stored, filesystem, heap, faults>>
            /\ IF loc.i < Len(layers) + 1 /\ ~(loc.i = Len(layers) /\ manifest.config = None)
               THEN /\ loc' = [loc EXCEPT !.i = @ + 1]
                    /\ log' = Append(log, call(TRUE))
                    /\ pc' = "copy_pullBlob"
                    /\ UNCHANGED <<op, hist>>
               ELSE IF manifest.config = None
               THEN Throw("TypeError", Append(log, call(TRUE)))
               ELSE /\ log' = Append(log, call(TRUE))
                    /\ pc' = "copy_pushManifest"
                    /\ UNCHANGED <<op, loc, hist>>

\* return this.client.pushManifest(targetRef, manifestJson, auth)
CopyArtifactPushManifest ==
  /\ pc = "copy_pushManifest"
  /\ LET text == The(loc.manifestJson)
         call(ok) == Call("pushManifest", op.target, None, None, Some(text), ok)
     IN  \/ NetworkFault(call(FALSE))
         \/ /\ tagged' = TaggedWith(op.target, text)
            /\ stored' = StoredWith(op.target, text)
            /\ Return(Result(Some(ManifestDigest(text)), <<>>, None, <<>>),
                      Append(log, call(TRUE)))
            /\ UNCHANGED <<blobs, filesystem, heap, faults>>

\* ------------------------------------------------- pullManifestForPlatform
\* const registry = imageRef.split('/')[0]; `${registry}@${digest}`
PlatformRef(imageRef, digest) ==
  IF Len(imageRef.path) > 1
  THEN [path |-> <<imageRef.path[1]>>, tag |-> None, digest |-> Some(digest)]
  ELSE [path |-> imageRef.path, tag |-> imageRef.tag, digest |-> Some(digest)]

\* manifest.manifests[0]
SelectedEntry(index, platform) == The(index.manifests)[1]

\* The manifest text is returned.  To the pull-platform command, which goes
\* on: JSON.parse(manifestJson), two lines printed, and
\* await client.pullArtifact(ref, options.output, auth).
ReturnManifest(got, calls) ==
  IF op.cli # "oras pull-platform" THEN Return(Result(None, <<>>, got, <<>>), calls)
  ELSE IF ~JsonParses(The(got)) THEN Throw("ManifestParseError", calls)
  ELSE /\ hist' = Append(hist, [Outcome(op, TRUE, "none", Result(None, <<>>, got, <<>>), calls)
                                  EXCEPT !.cli = [exit |-> None, stdout |-> op.out, stderr |-> <<>>]])
       /\ op' = [Operation("pullArtifact", op.ref, op.ref, <<>>, NoOptions, op.outputDir, op.platform)
                   EXCEPT !.cli = op.cli,
                          !.out = op.out \o <<Str("Found manifest"), Str("Layers"),
                                              Str("Pulling artifact layers")>>]
       /\ pc' = "pull_manifest"
       /\ loc' = NoLocals
       /\ log' = <<>>

PullManifestForPlatformCall ==
  \E ref \in PullRefs \cup {RefRegIndex}, platform \in Platforms :
    Begin(Operation("pullManifestForPlatform", ref, ref, <<>>, NoOptions, <<>>, Some(platform)),
          "platform_manifest")

\* await pullManifest(imageRef), JSON.parse, and the choice of the entry.
PullManifestForPlatformPullManifest ==
  /\ pc = "platform_manifest"
  /\ UNCHANGED <<registry, filesystem, heap>>
  /\ LET got == ManifestAt(op.ref)
         call(ok) == Call("pullManifest", op.ref, None, None, got, ok)
     IN  \/ NetworkFault(call(FALSE))
         \/ /\ got = None
            /\ Throw("ManifestNotFound", Append(log, call(FALSE)))
            /\ UNCHANGED faults
         \/ /\ got # None
            /\ UNCHANGED faults
            /\ IF ~JsonParses(The(got))
               THEN Throw("ManifestParseError", Append(log, call(TRUE)))
               ELSE LET manifest == JsonParse(The(got))
                    IN  IF ~HasManifestsField(manifest)
                        THEN ReturnManifest(got, Append(log, call(TRUE)))
                        ELSE IF Len(The(manifest.manifests)) > 0
                        THEN /\ loc' = [loc EXCEPT !.manifestJson = got,
                                                   !.resolvedManifest = Some(manifest)]
                             /\ log' = Append(log, call(TRUE))
                             /\ pc' = "platform_entry"
                             /\ UNCHANGED <<op, hist>>
                        ELSE Throw("PlatformNotFound", Append(log, call(TRUE)))

\* return this.client.pullManifest(platformRef, auth)
PullManifestForPlatformPullEntry ==
  /\ pc = "platform_entry"
  /\ UNCHANGED <<registry, filesystem, heap>>
  /\ LET entry == SelectedEntry(The(loc.resolvedManifest), The(op.platform))
         platformRef == PlatformRef(op.ref, entry.digest)
         got == ManifestAt(platformRef)
         call(ok) == Call("pullManifest", platformRef, None, None, got, ok)
     IN  \/ NetworkFault(call(FALSE))
         \/ /\ got = None
            /\ Throw("ManifestNotFound", Append(log, call(FALSE)))
            /\ UNCHANGED faults
         \/ /\ got # None
            /\ ReturnManifest(got, Append(log, call(TRUE)))
            /\ UNCHANGED faults

\* ------------------------------------------------------- pushBlob, pullBlob
BlobData == {<<>>, <<0, 255>>, HelloBytes}

\* Variant: one hash object is kept and updated by every call.
BlobDigestCumulative(data) == Sha256(data \o <<Len(hist)>>)
\* const hash = crypto.createHash('sha256'); hash.update(data);
\* const digest = `sha256:${hash.digest('hex')}`
BlobDigest(data) == Sha256(data)

PushBlobCall ==
  \E data \in BlobData :
    Begin([Operation("pushBlob", RefA, RefA, <<>>, NoOptions, <<>>, None)
             EXCEPT !.data = Some(data)],
          "blob_push")

\* return this.client.pushBlob(imageRef, data, digest, auth)
PushBlobPushBlob ==
  /\ pc = "blob_push"
  /\ LET data == The(op.data)
         digest == BlobDigest(data)
         call(ok) == Call("pushBlob", op.ref, Some(digest), Some(data), None, ok)
     IN  \/ NetworkFault(call(FALSE))
         \/ /\ ~BlobAccepted(data, digest)
            /\ Throw("DigestRejected", Append(log, call(FALSE)))
            /\ UNCHANGED <<registry, filesystem, heap, faults>>
         \/ /\ BlobAccepted(data, digest)
            /\ blobs' = BlobsWith(op.ref, data, digest)
            /\ Return(Result(Some(digest), <<>>, None, <<>>), Append(log, call(TRUE)))
            /\ UNCHANGED <<tagged, stored, filesystem, heap, faults>>

PullBlobCall ==
  \E data \in BlobData :
    Begin([Operation("pullBlob", RefA, RefA, <<>>, NoOptions, <<>>, None)
             EXCEPT !.digest = Some(Sha256(data))],
          "blob_pull")

\* return this.client.pullBlob(imageRef, digest, auth)
PullBlobPullBlob ==
  /\ pc = "blob_pull"
  /\ UNCHANGED <<registry, filesystem, heap>>
  /\ LET got == BlobAt(op.ref, The(op.digest))
         call(ok) == Call("pullBlob", op.ref, op.digest, got, None, ok)
     IN  \/ NetworkFault(call(FALSE))
         \/ /\ got = None
            /\ Throw("BlobNotFound", Append(log, call(FALSE)))
            /\ UNCHANGED faults
         \/ /\ got # None
            /\ Return([NoResult EXCEPT !.data = got], Append(log, call(TRUE)))
            /\ UNCHANGED faults

\* ------------------------------------------------------- pushManifestIndex
ManifestDescriptor(digest, mediaType, size, platform, annotations) ==
  [digest |-> digest, mediaType |-> mediaType, size |-> size, platform |-> platform,
   annotations |-> annotations]

\* The descriptors a caller passes: the two manifests of the registry, each
\* with its platform, one with annotations.
ManifestDescriptors ==
  { ManifestDescriptor(ManifestDigest(SeedManifestA), ManifestType, 1, Some(LinuxAmd64), None),
    ManifestDescriptor(ManifestDigest(SeedManifestB), ManifestType, 2, Some(LinuxArm64),
                       Some(CallerObj)) }
ManifestLists == SeqsUpTo(ManifestDescriptors, MaxFiles)

\* Variant: the entry keeps the platform of the input.
IndexEntryWithPlatform(m) == Descriptor(m.mediaType, m.digest, m.size, m.annotations, m.platform)
\* manifests.map(m => ({mediaType, digest, size, annotations, urls: undefined}))
IndexEntry(m) == Descriptor(m.mediaType, m.digest, m.size, m.annotations, None)

ImageIndex(manifests, annotations) ==
  Doc(Some(2), Some(IndexType), None, None,
      Some([i \in 1..Len(manifests) |-> IndexEntry(manifests[i])]), annotations, None)

\* manifests of the pushManifestIndex call in progress: the caller's, or the
\* manifestDescriptors of pushArtifactMultiPlatform.
IndexManifests == IF MultiPlatform THEN loc.manifestDescriptors ELSE op.manifests

PushManifestIndexCall ==
  \E manifests \in ManifestLists, annotations \in {None, Some(OptionsObj)} :
    Begin([Operation("pushManifestIndex", RefNewIndex, RefNewIndex, <<>>,
                     PushArtifactOptions(None, annotations, None, None), <<>>, None)
             EXCEPT !.manifests = manifests],
          "index_manifest")

\* return this.client.pushManifest(imageRef, JSON.stringify(index), auth)
PushManifestIndexPushManifest ==
  /\ pc = "index_manifest"
  /\ LET text == JsonStringify(ImageIndex(IndexManifests, op.opts.annotations), heap)
         call(ok) == Call("pushManifest", op.ref, None, None, Some(text), ok)
     IN  \/ NetworkFault(call(FALSE))
         \/ /\ tagged' = TaggedWith(op.ref, text)
            /\ stored' = StoredWith(op.ref, text)
            /\ Return(Result(Some(ManifestDigest(text)), <<>>, None, <<>>),
                      Append(log, call(TRUE)))
            /\ UNCHANGED <<blobs, filesystem, heap, faults>>

\* ----------------------------------------------- pushArtifactMultiPlatform
LinuxArmV7 == Platform("linux", "arm", Some("v7"))
LinuxArmV8 == Platform("linux", "arm", Some("v8"))

\* What a caller passes: no platform, one, two, two that differ in the
\* variant only, and lists with a file that does not exist.
PlatformArtifactLists ==
  LET one(path) == <<FileLayer(path, Some(OctetStream), None, None)>>
      two == <<FileLayer(PathBX, Some(OctetStream), None, None),
               FileLayer(PathY, None, Some(CallerObj), Some(Str("data.bin")))>>
  IN  { <<>>,
        << <<LinuxAmd64, one(PathAX)>> >>,
        << <<LinuxAmd64, one(PathAX)>>, <<LinuxArm64, two>> >>,
        << <<LinuxArmV7, one(PathAX)>>, <<LinuxArmV8, one(PathBX)>> >>,
        << <<LinuxAmd64, one(PathAX)>>, <<LinuxArm64, one(PathMissing)>> >>,
        << <<LinuxAmd64, one(PathMissing)>>, <<LinuxArm64, one(PathAX)>> >> }

\* Variant: the loop ends after the first platform.
MultiPlatformStepFirstOnly(platformArtifacts, p) ==
  IF p > 1 \/ platformArtifacts = <<>> THEN "index_manifest"
  ELSE IF platformArtifacts[p][2] = <<>> THEN "push_config" ELSE "push_readFile"
\* Where the loop over platformArtifacts goes for platform p: into
\* pushArtifact, or on to pushManifestIndex after the last platform.
MultiPlatformStep(platformArtifacts, p) ==
  IF p > Len(platformArtifacts) THEN "index_manifest"
  ELSE IF platformArtifacts[p][2] = <<>> THEN "push_config" ELSE "push_readFile"

PushArtifactMultiPlatformCall ==
  \E platformArtifacts \in PlatformArtifactLists,
     opts \in {NoOptions, PushArtifactOptions(None, Some(OptionsObj), None, None)} :
    Begin([Operation("pushArtifactMultiPlatform", RefA, RefA, <<>>, opts, <<>>, None)
             EXCEPT !.platformArtifacts = platformArtifacts],
          MultiPlatformStep(platformArtifacts, 1))

\* const manifestBuffer = Buffer.from(manifestJson); hash.update(manifestBuffer);
\* const digest = `sha256:${hash.digest('hex')}`
MultiPlatformDigest(manifestJson) == ManifestDigest(manifestJson)

\* await this.client.pullManifest(platformTag, auth), manifestDescriptors.push,
\* and the next platform.
PushArtifactMultiPlatformPullManifest ==
  /\ pc = "multi_pullManifest"
  /\ UNCHANGED <<registry, filesystem, heap>>
  /\ LET platform == op.platformArtifacts[loc.p][1]
         platformTag == PlatformTag(op.ref, platform)
         got == ManifestAt(platformTag)
         call(ok) == Call("pullManifest", platformTag, None, None, got, ok)
     IN  \/ NetworkFault(call(FALSE))
         \/ /\ got = None
            /\ Throw("ManifestNotFound", Append(log, call(FALSE)))
            /\ UNCHANGED faults
         \/ /\ got # None
            /\ loc' = [NoLocals EXCEPT
                         !.p = loc.p + 1,
                         !.manifestDescriptors =
                           Append(loc.manifestDescriptors,
                                  ManifestDescriptor(MultiPlatformDigest(The(got)), ManifestType,
                                                     TextLen(The(got)), Some(platform), None))]
            /\ log' = Append(log, call(TRUE))
            /\ pc' = MultiPlatformStep(op.platformArtifacts, loc.p + 1)
            /\ UNCHANGED <<op, hist, faults>>

\* --------------------------------------------------------------------- CLI
\* path.extname(filePath).toLowerCase(), on the file names of the model.
Extname(filePath) ==
  LET name == IF filePath = <<>> THEN "" ELSE filePath[Len(filePath)]
  IN  CASE name \in {"x.txt", "missing.txt"} -> ".txt"
        [] name = "y.bin" -> ".bin"
        [] OTHER -> ""

\* const mediaTypes: Record<string, string> = {...}
MediaTypes ==
  [ext \in {".json", ".txt", ".md", ".yaml", ".yml", ".xml", ".tar", ".gz", ".zip"} |->
     CASE ext = ".json" -> "application/json"
       [] ext = ".txt" -> "text/plain"
       [] ext = ".md" -> "text/markdown"
       [] ext \in {".yaml", ".yml"} -> "application/yaml"
       [] ext = ".xml" -> "application/xml"
       [] ext = ".tar" -> "application/x-tar"
       [] ext = ".gz" -> "application/gzip"
       [] OTHER -> "application/zip"]

\* The FileLayer the push command makes of a file argument.
CliFileLayer(filePath) ==
  FileLayer(filePath,
            Some(IF Extname(filePath) \in DOMAIN MediaTypes
                 THEN MediaTypes[Extname(filePath)] ELSE OctetStream),
            None, Some(Basename(filePath)))

\* The --annotation arguments, each split on "=": const [key, ...valueParts]
\* = ann.split('='); a value is kept as its "="-separated parts.
RECURSIVE ParseAnnotations(_)
ParseAnnotations(args) ==
  IF args = <<>> THEN EmptyMap
  ELSE LET before == ParseAnnotations(SubSeq(args, 1, Len(args) - 1))
           ann == args[Len(args)]
       IN  IF ann[1] # "" /\ Len(ann) > 1 THEN MapSet(before, ann[1], Tail(ann))
           ELSE before

\* Command lines: the files of `oras push` and its --annotation options
\* ("note=n", and "flag", which has no "=").
CliFileArgs == SeqsUpTo({PathAX, PathY, PathMissing}, MaxFiles) \ {<<>>}
CliAnnotationArgs == {<<>>, <<<<"note", "n">>>>, <<<<"flag">>>>}

\* A command fails before its client call: the catch block runs at once.
CliFailsAtOnce(o, err) ==
  /\ Idle
  /\ Append(Invoked, Invoker(o)) \in SessionPrefixes
  /\ hist' = Append(hist, Outcome(o, FALSE, err, NoResult, <<>>))
  /\ heap' = CallerHeap
  /\ UNCHANGED <<registry, filesystem, faults, op, pc, loc, log>>

CliCommand(name, printed, o) == [o EXCEPT !.cli = name, !.out = printed]

\* oras push <ref> <files...>: up to the await of client.pushArtifact.
CliPush ==
  \E ref \in {RefA}, filePaths \in CliFileArgs, annotationArgs \in CliAnnotationArgs :
    LET annotations == ParseAnnotations(annotationArgs)
        fileLayers == [i \in 1..Len(filePaths) |-> CliFileLayer(filePaths[i])]
        obj == NewObj(CallerHeap)
        given == DOMAIN annotations # {}
        pushOptions == PushArtifactOptions(None, IF given THEN Some(obj) ELSE None, None, None)
        o == CliCommand("oras push", <<Str("Pushing")>>,
                        Operation("pushArtifact", ref, ref, fileLayers, pushOptions, <<>>, None))
    IN  IF \E i \in 1..Len(filePaths) : filePaths[i] \notin DOMAIN files
        THEN CliFailsAtOnce(o, "FileNotFound")
        ELSE BeginWith(o, "push_readFile",
                       IF given THEN CallerHeap @@ (obj :> annotations) ELSE CallerHeap)

\* oras pull <ref> -o <dir>: up to the await of client.pullArtifact.
CliPull ==
  \E ref \in PullRefs :
    Begin(CliCommand("oras pull", <<Str("Pulling")>>,
                     Operation("pullArtifact", ref, ref, <<>>, NoOptions, OutDir, None)),
          "pull_manifest")

\* oras copy <source> <target>: up to the await of client.copyArtifact.
CliCopy ==
  \E source \in {RefA, RefMulti, RefBad} :
    Begin(CliCommand("oras copy", <<Str("Copying")>>,
                     Operation("copyArtifact", source, RefB, <<>>, NoOptions, <<>>, None)),
          "copy_manifest")

\* The --platform arguments of push-multiplatform, each split on ":" and the
\* file part on ",": [platformPart.split('/'), filesPart.split(',')].
CliPlatformFileArgs ==
  { <<>>,
    << <<<<"linux", "amd64">>, <<PathAX>>>> >>,
    << <<<<"linux", "amd64">>, <<PathAX>>>>, <<<<"linux", "arm64">>, <<PathY, PathBX>>>> >>,
    << <<<<"linux", "amd64">>, <<PathMissing>>>> >>,
    << <<<<"linux">>, <<PathAX>>>> >> }

\* const [os, arch, variant] = text.split('/'): the Platform of the parts.
CliPlatform(parts) ==
  Platform(parts[1], parts[2], IF Len(parts) > 2 THEN Some(parts[3]) ELSE None)

\* oras push-multiplatform <ref> --platform ...: up to the await of
\* client.pushArtifactMultiPlatform.
CliPushMultiplatform ==
  \E args \in CliPlatformFileArgs, annotationArgs \in CliAnnotationArgs :
    LET annotations == ParseAnnotations(annotationArgs)
        obj == NewObj(CallerHeap)
        given == DOMAIN annotations # {}
        pushOptions == PushArtifactOptions(None, IF given THEN Some(obj) ELSE None, None, None)
        valid == \A i \in 1..Len(args) : Len(args[i][1]) >= 2
        platformArtifacts ==
          [i \in 1..Len(args) |->
             <<CliPlatform(args[i][1]),
               [j \in 1..Len(args[i][2]) |->
                  FileLayer(args[i][2][j], Some(OctetStream), None, Some(Basename(args[i][2][j])))]>>]
        o(pa) == CliCommand("oras push-multiplatform", <<Str("Pushing multi-platform artifact")>>,
                            [Operation("pushArtifactMultiPlatform", RefA, RefA, <<>>, pushOptions,
                                       <<>>, None)
                               EXCEPT !.platformArtifacts = pa])
    IN  IF ~valid THEN CliFailsAtOnce(o(<<>>), "InvalidPlatform")
        ELSE IF args = <<>> THEN CliFailsAtOnce(o(<<>>), "NoPlatforms")
        ELSE BeginWith(o(platformArtifacts), MultiPlatformStep(platformArtifacts, 1),
                       IF given THEN CallerHeap @@ (obj :> annotations) ELSE CallerHeap)

\* The --manifest arguments of manifest-index create, each split on ",":
\* [digest, os, arch, ...rest].
CliManifestArgs ==
  { <<>>,
    << <<ManifestDigest(SeedManifestA), "linux", "amd64">> >>,
    << <<ManifestDigest(SeedManifestA), "linux", "amd64">>,
       <<ManifestDigest(SeedManifestB), "linux", "arm", "v7">> >>,
    << <<ManifestDigest(SeedManifestA), "linux">> >> }

\* manifests.push({digest, mediaType, size: 0, platform, annotations: undefined})
CliManifestDescriptor(parts) ==
  ManifestDescriptor(parts[1], ManifestType, 0,
                     Some(Platform(parts[2], parts[3],
                                   IF Len(parts) > 3 THEN Some(parts[4]) ELSE None)),
                     None)

\* oras manifest-index create <ref> --manifest ...: up to the await of
\* client.pushManifestIndex.
CliManifestIndexCreate ==
  \E args \in CliManifestArgs, annotationArgs \in CliAnnotationArgs :
    LET annotations == ParseAnnotations(annotationArgs)
        obj == NewObj(CallerHeap)
        given == DOMAIN annotations # {}
        valid == \A i \in 1..Len(args) : Len(args[i]) >= 3
        o(manifests) ==
          CliCommand("oras manifest-index create", <<Str("Creating manifest index")>>,
                     [Operation("pushManifestIndex", RefNewIndex, RefNewIndex, <<>>,
                                PushArtifactOptions(None, IF given THEN Some(obj) ELSE None,
                                                    None, None),
                                <<>>, None)
                        EXCEPT !.manifests = manifests])
    IN  IF ~valid THEN CliFailsAtOnce(o(<<>>), "InvalidManifest")
        ELSE BeginWith(o([i \in 1..Len(args) |-> CliManifestDescriptor(args[i])]),
                       "index_manifest",
                       IF given THEN CallerHeap @@ (obj :> annotations) ELSE CallerHeap)

\* The --platform argument of pull-platform, split on "/".
CliPlatformArgs == {<<"linux", "amd64">>, <<"linux", "arm64">>, <<"linux", "arm", "v7">>, <<"linux">>}

\* oras pull-platform <ref> --platform os/arch[/variant] -o <dir>: up to the
\* await of client.pullManifestForPlatform.
CliPullPlatform ==
  \E ref \in {RefA, RefMulti, RefSwapped, RefBad}, parts \in CliPlatformArgs :
    LET o(platform) ==
          CliCommand("oras pull-platform", <<Str("Pulling")>>,
                     Operation("pullManifestForPlatform", ref, ref, <<>>, NoOptions, OutDir, platform))
    IN  IF Len(parts) < 2 THEN CliFailsAtOnce(o(None), "InvalidPlatform")
        ELSE Begin(o(Some(CliPlatform(parts))), "platform_manifest")

\* ----------------------------------------- two pushArtifact calls at once
\* The caller starts two pushArtifact operations on one client without
\* awaiting the first: op, pc, loc and log hold one value per operation, and
\* the operations take turns at their awaits.
Procs == {1, 2}

\* What the two calls are given: FileLayers that share the caller's
\* annotations object, within a call and between the calls, and FileLayers
\* without annotations.
ConcurrentFileLists ==
  { <<FileLayer(PathAX, None, Some(CallerObj), None)>>,
    <<FileLayer(PathY, None, Some(CallerObj), Some(Str("data.bin")))>>,
    <<FileLayer(PathBX, Some("text/plain"), None, None)>>,
    <<FileLayer(PathBX, Some("text/plain"), None, None),
      FileLayer(PathAX, None, Some(CallerObj), None)>>,
    <<FileLayer(PathMissing, None, None, None)>> }

ConcurrentSettle(p, ok, err, ret, calls) ==
  /\ hist' = Append(hist, Outcome(op[p], ok, err, ret, calls))
  /\ pc' = [pc EXCEPT ![p] = "idle"]
  /\ loc' = [loc EXCEPT ![p] = NoLocals]
  /\ log' = [log EXCEPT ![p] = <<>>]
  /\ UNCHANGED op
ConcurrentThrow(p, err, calls) == ConcurrentSettle(p, FALSE, err, NoResult, calls)

ConcurrentNetworkFault(p, call) ==
  /\ faults < MaxFaults
  /\ faults' = faults + 1
  /\ ConcurrentThrow(p, "NetworkFault", Append(log[p], call))
  /\ UNCHANGED <<registry, filesystem, heap>>

\* await fs.readFile(filePath), in operation p
ConcurrentReadFile(p) ==
  /\ pc[p] = "push_readFile"
  /\ LET filePath == op[p].files[loc[p].i].path
     IN  IF filePath \in DOMAIN files
         THEN /\ loc' = [loc EXCEPT ![p].content = files[filePath]]
              /\ pc' = [pc EXCEPT ![p] = "push_pushBlob"]
              /\ UNCHANGED <<op, log, hist>>
         ELSE ConcurrentThrow(p, "FileNotFound", log[p])
  /\ UNCHANGED <<registry, filesystem, heap, faults>>

\* await this.client.pushBlob(imageRef, content, digest, auth), then the
\* descriptor of the layer, in operation p
ConcurrentPushBlob(p) ==
  /\ pc[p] = "push_pushBlob"
  /\ LET fileLayer == op[p].files[loc[p].i]
         content == loc[p].content
         digest == LayerDigest(content)
         call(ok) == Call("pushBlob", op[p].ref, Some(digest), Some(content), None, ok)
     IN  \/ ConcurrentNetworkFault(p, call(FALSE))
         \/ /\ ~BlobAccepted(content, digest)
            /\ ConcurrentThrow(p, "DigestRejected", Append(log[p], call(FALSE)))
            /\ UNCHANGED <<registry, filesystem, heap, faults>>
         \/ /\ BlobAccepted(content, digest)
            /\ blobs' = BlobsWith(op[p].ref, content, digest)
            /\ heap' = HeapWithTitle(fileLayer, heap)
            /\ loc' = [loc EXCEPT ![p].layerDescriptors =
                                    PushDescriptor(@, LayerDescriptor(fileLayer, content, heap)),
                                  ![p].i = @ + 1]
            /\ log' = [log EXCEPT ![p] = Append(@, call(TRUE))]
            /\ pc' = [pc EXCEPT ![p] = IF loc[p].i < Len(op[p].files)
                                       THEN "push_readFile" ELSE "push_config"]
            /\ UNCHANGED <<tagged, stored, filesystem, op, hist, faults>>

\* await this.client.pushBlob(imageRef, configData, configDigest, auth), in
\* operation p
ConcurrentPushConfig(p) ==
  /\ pc[p] = "push_config"
  /\ LET digest == Sha256(ConfigData)
         call(ok) == Call("pushBlob", op[p].ref, Some(digest), Some(ConfigData), None, ok)
     IN  \/ ConcurrentNetworkFault(p, call(FALSE))
         \/ /\ ~BlobAccepted(ConfigData, digest)
            /\ ConcurrentThrow(p, "DigestRejected", Append(log[p], call(FALSE)))
            /\ UNCHANGED <<registry, filesystem, heap, faults>>
         \/ /\ BlobAccepted(ConfigData, digest)
            /\ blobs' = BlobsWith(op[p].ref, ConfigData, digest)
            /\ log' = [log EXCEPT ![p] = Append(@, call(TRUE))]
            /\ pc' = [pc EXCEPT ![p] = "push_manifest"]
            /\ UNCHANGED <<tagged, stored, filesystem, heap, op, loc, hist, faults>>

\* return this.client.pushManifest(imageRef, JSON.stringify(manifest), auth),
\* in operation p
ConcurrentPushManifest(p) ==
  /\ pc[p] = "push_manifest"
  /\ LET text == JsonStringify(ImageManifest(op[p].opts, loc[p].layerDescriptors), heap)
         call(ok) == Call("pushManifest", op[p].ref, None, None, Some(text), ok)
     IN  \/ ConcurrentNetworkFault(p, call(FALSE))
         \/ /\ tagged' = TaggedWith(op[p].ref, text)
            /\ stored' = StoredWith(op[p].ref, text)
            /\ ConcurrentSettle(p, TRUE, "none",
                                Result(Some(ManifestDigest(text)), <<>>, None, <<>>),
                                Append(log[p], call(TRUE)))
            /\ UNCHANGED <<blobs, filesystem, heap, faults>>

\* ------------------------------------------------------------ specification
Init ==
  /\ blobs = InitialBlobs
  /\ tagged = InitialTagged
  /\ stored = InitialStored
  /\ files = InitialFiles
  /\ dirs = InitialDirs
  /\ heap = InitialHeap
  /\ op = NoOp
  /\ pc = "idle"
  /\ loc = NoLocals
  /\ log = <<>>
  /\ hist = <<>>
  /\ faults = 0

Next ==
  \/ PushArtifactCall
  \/ PushArtifactReadFile
  \/ PushArtifactPushBlob
  \/ PushArtifactPushConfig
  \/ PushArtifactPushManifest
  \/ PullArtifactCall
  \/ PullArtifactPullManifest
  \/ PullArtifactPullImageManifest
  \/ PullArtifactMkdir
  \/ PullArtifactPullBlob
  \/ PullArtifactWriteFile
  \/ PullArtifactStreamsCall
  \/ PullArtifactStreamsPullManifest
  \/ PullArtifactStreamsPullImageManifest
  \/ PullArtifactStreamsLoop
  \/ PullArtifactStreamsPullBlob
  \/ CopyArtifactCall
  \/ CopyArtifactPullManifest
  \/ CopyArtifactPullBlob
  \/ CopyArtifactPushBlob
  \/ CopyArtifactPushManifest
  \/ PullManifestForPlatformCall
  \/ PullManifestForPlatformPullManifest
  \/ PullManifestForPlatformPullEntry
  \/ PushBlobCall
  \/ PushBlobPushBlob
  \/ PullBlobCall
  \/ PullBlobPullBlob
  \/ PushManifestIndexCall
  \/ PushArtifactMultiPlatformCall
  \/ PushArtifactMultiPlatformPullManifest
  \/ PushManifestIndexPushManifest
  \/ CliPush
  \/ CliPull
  \/ CliCopy
  \/ CliPushMultiplatform
  \/ CliManifestIndexCreate
  \/ CliPullPlatform

Spec == Init /\ [][Next]_vars

\* Both operations have been called, neither has got past its first await.
ConcurrentInit ==
  /\ blobs = InitialBlobs
  /\ tagged = InitialTagged
  /\ stored = InitialStored
  /\ files = InitialFiles
  /\ dirs = InitialDirs
  /\ heap = InitialHeap
  /\ op \in [Procs -> {Operation("pushArtifact", RefA, RefA, fileLayers, NoOptions, <<>>, None) :
                         fileLayers \in ConcurrentFileLists}]
  /\ pc = [p \in Procs |-> "push_readFile"]
  /\ loc = [p \in Procs |-> NoLocals]
  /\ log = [p \in Procs |-> <<>>]
  /\ hist = <<>>
  /\ faults = 0

ConcurrentNext ==
  \E p \in Procs :
    \/ ConcurrentReadFile(p)
    \/ ConcurrentPushBlob(p)
    \/ ConcurrentPushConfig(p)
    \/ ConcurrentPushManifest(p)

ConcurrentSpec == ConcurrentInit /\ [][ConcurrentNext]_vars

\* ================================================================== claims
Last == hist[Len(hist)]
\* The operation `name` has just settled.
Settled(name) == Idle /\ hist # <<>> /\ Last.op.name = name
OkCalls(calls, name) == SelectSeq(calls, LAMBDA c : c.call = name /\ c.ok)
CallsNamed(calls, names) == SelectSeq(calls, LAMBDA c : c.call \in names)
\* The manifest a settled push or copy handed to pushManifest.
PushedText(h) == The(h.log[Len(h.log)].text)
PushedManifest(h) == JsonParse(PushedText(h))
AllFilesExist(fileLayers) == \A i \in 1..Len(fileLayers) : fileLayers[i].path \in DOMAIN files

\* C1: after every successful pushArtifact(ref, files, options) the manifest
\* pushed to ref (and now stored at ref) has schemaVersion 2 and exactly
\* len(files) layers, and for every i the i-th layer is the descriptor of the
\* i-th input file: it carries the digest and the byte length of that file's
\* content, so layer order equals input file order.
C1_ManifestShape ==
  (Settled("pushArtifact") /\ Last.ok) =>
    LET h == Last
        last == h.log[Len(h.log)]
        m == PushedManifest(h)
    IN  /\ last.call = "pushManifest" /\ last.ok /\ last.ref = h.op.ref
        /\ ManifestAt(h.op.ref) = last.text
        /\ m.schemaVersion = Some(2)
        /\ m.layers # None
        /\ Len(The(m.layers)) = Len(h.op.files)
        /\ \A i \in 1..Len(h.op.files) :
             /\ The(m.layers)[i].digest = Sha256(files[h.op.files[i].path])
             /\ The(m.layers)[i].size = Len(files[h.op.files[i].path])

\* C1 witness: a push of two files with different content has succeeded.
C1_Witness ==
  /\ Settled("pushArtifact") /\ Last.ok
  /\ Len(Last.op.files) = 2
  /\ files[Last.op.files[1].path] # files[Last.op.files[2].path]

\* The blobs a pushArtifact pushed before it settled.
LayersPushed(h) == Len(OkCalls(h.log, "pushBlob"))
\* Pushing a file failed: a pushBlob call of the file loop did not succeed.
PushOfFileFailed(h) ==
  \E c \in 1..Len(h.log) :
    h.log[c].call = "pushBlob" /\ ~h.log[c].ok /\ c <= Len(h.op.files)
\* Reading a file failed: the loop came to a file that does not exist.
ReadOfFileFailed(h) ==
  \E k \in 1..Len(h.op.files) :
    h.op.files[k].path \notin DOMAIN files /\ LayersPushed(h) >= k - 1
ManifestBefore(h) ==
  LET found == {t \in h.op.before.tagged : t.repo = Repo(h.op.ref) /\ Some(t.tag) = h.op.ref.tag}
  IN  IF found = {} THEN None ELSE Some((CHOOSE t \in found : TRUE).text)

\* C2: if reading or pushing file k fails during pushArtifact(ref, files), the
\* operation reports failure, the blobs of the files before k are present in
\* ref's repository, and no manifest is pushed: the manifest stored at ref is
\* the one that was there before the call.
C2_FailurePolicy ==
  (Settled("pushArtifact") /\ (ReadOfFileFailed(Last) \/ PushOfFileFailed(Last))) =>
    LET h == Last
    IN  /\ ~h.ok
        /\ LayersPushed(h) < Len(h.op.files)
        /\ \A i \in 1..LayersPushed(h) :
             /\ h.op.files[i].path \in DOMAIN files
             /\ LET data == files[h.op.files[i].path]
                IN  BlobAt(h.op.ref, Sha256(data)) = Some(data)
        /\ CallsNamed(h.log, {"pushManifest"}) = <<>>
        /\ ManifestAt(h.op.ref) = ManifestBefore(h)

\* C2 witness: the second file of a push could not be read, after a manifest
\* had already been pushed to the reference by an earlier call.
C2_Witness ==
  /\ Idle /\ Len(hist) = 2 /\ ReadOfFileFailed(Last)
  /\ hist[1].op.name = "pushArtifact" /\ hist[1].ok
  /\ Last.err = "FileNotFound"
  /\ LayersPushed(Last) = 1

FailedAtSomeFile(h) ==
  h.op.name = "pushArtifact" /\ (ReadOfFileFailed(h) \/ PushOfFileFailed(h))
BlobPushes(h) == CallsNamed(h.log, {"pushBlob"})

\* C3: idempotent retry.  After a pushArtifact that failed at file k, a second
\* pushArtifact to the same reference with a corrected file list (every file
\* exists) succeeds, unless the network fails it, and pushes a manifest with
\* all its layers; a blob pushed in both attempts is pushed under the same
\* digest both times, and every blob the registry held before the retry is
\* still there with the same content, one content per digest.
C3_IdempotentRetry ==
  (/\ Idle /\ Len(hist) = 2
   /\ FailedAtSomeFile(hist[1])
   /\ hist[2].op.name = "pushArtifact" /\ hist[2].op.ref = hist[1].op.ref
   /\ AllFilesExist(hist[2].op.files)) =>
    LET first == hist[1]
        retry == hist[2]
    IN  /\ retry.ok \/ retry.err = "NetworkFault"
        /\ retry.ok =>
             /\ ManifestAt(retry.op.ref) = Some(PushedText(retry))
             /\ Len(The(PushedManifest(retry).layers)) = Len(retry.op.files)
             /\ \A i \in 1..Len(retry.op.files) :
                  BlobAt(retry.op.ref, The(PushedManifest(retry).layers)[i].digest)
                    = Some(files[retry.op.files[i].path])
        /\ \A a \in 1..Len(BlobPushes(first)), b \in 1..Len(BlobPushes(retry)) :
             BlobPushes(first)[a].data = BlobPushes(retry)[b].data
               => BlobPushes(first)[a].digest = BlobPushes(retry)[b].digest
        /\ retry.op.before.blobs \subseteq blobs
        /\ \A x \in blobs, y \in blobs :
             (x.repo = y.repo /\ x.digest = y.digest) => x.data = y.data

\* C3 witness: the first attempt pushed one blob and failed reading its second
\* file; the retry pushed that blob again and succeeded with two layers.
C3_Witness ==
  /\ Idle /\ Len(hist) = 2
  /\ FailedAtSomeFile(hist[1]) /\ hist[1].err = "FileNotFound" /\ LayersPushed(hist[1]) = 1
  /\ hist[2].op.name = "pushArtifact" /\ hist[2].ok /\ Len(hist[2].op.files) = 2
  /\ \E b \in 1..Len(BlobPushes(hist[2])) :
       BlobPushes(hist[2])[b].data = BlobPushes(hist[1])[1].data

\* C4: descriptor invariant.  In every manifest pushed by pushArtifact each
\* layer descriptor and the config descriptor has size equal to the byte
\* length of the blob pushed for it and digest equal to the content digest of
\* those bytes, which is the digest the blob was pushed under.
C4_DescriptorInvariant ==
  (Settled("pushArtifact") /\ Last.ok) =>
    LET m == PushedManifest(Last)
        pushes == OkCalls(Last.log, "pushBlob")
        n == Len(The(m.layers))
        Agrees(d, c) ==
          /\ d.size = Len(The(c.data))
          /\ d.digest = The(c.digest)
          /\ d.digest = Sha256(The(c.data))
          /\ BlobAt(Last.op.ref, d.digest) = c.data
    IN  /\ Len(pushes) = n + 1
        /\ \A i \in 1..n : Agrees(The(m.layers)[i], pushes[i])
        /\ m.config # None
        /\ Agrees(The(m.config), pushes[n + 1])

\* C4 witness: a manifest was pushed for an empty file and a two-byte file.
C4_Witness ==
  /\ Settled("pushArtifact") /\ Last.ok
  /\ \E i, j \in 1..Len(Last.op.files) :
       /\ The(PushedManifest(Last).layers)[i].size = 0
       /\ The(PushedManifest(Last).layers)[j].size = 2

\* The title a FileLayer asks for: its explicit title, else its base name.
TitleOf(fileLayer) ==
  IF fileLayer.title # None THEN The(fileLayer.title) ELSE Basename(fileLayer.path)

\* C5: round trip.  pushArtifact(ref, files) followed by pullArtifact(ref, dir)
\* writes into dir, for each input file, a file named by its title whose bytes
\* are the input file's bytes, and returns one path per layer.
C5_RoundTrip ==
  (/\ Idle /\ Len(hist) = 2
   /\ hist[1].op.name = "pushArtifact" /\ hist[1].ok
   /\ hist[2].op.name = "pullArtifact" /\ hist[2].ok /\ hist[2].op.ref = hist[1].op.ref) =>
    /\ Len(hist[2].ret.paths) = Len(hist[1].op.files)
    /\ \A i \in 1..Len(hist[1].op.files) :
         LET fileLayer == hist[1].op.files[i]
             written == PathJoin(hist[2].op.outputDir, TitleOf(fileLayer))
         IN  written \in DOMAIN files /\ files[written] = files[fileLayer.path]

\* The first manifest pull of an operation returned well-formed JSON.
FirstPullParsed(h) ==
  /\ h.log # <<>> /\ h.log[1].call = "pullManifest" /\ h.log[1].ok
  /\ ~The(h.log[1].text).malformed
FirstDoc(h) == JsonParse(The(h.log[1].text))
ManifestPulls(h) == CallsNamed(h.log, {"pullManifest", "pullImageManifest"})
BlobsPulled(h) == CallsNamed(h.log, {"pullBlob"})
\* The blobs the operation asked for are the first layers of doc, in order,
\* and all of them when the operation succeeded.
LayersFrom(h, doc) ==
  /\ Len(BlobsPulled(h)) <= Len(The(doc.layers))
  /\ h.ok => Len(BlobsPulled(h)) = Len(The(doc.layers))
  /\ \A i \in 1..Len(BlobsPulled(h)) : BlobsPulled(h)[i].digest = Some(The(doc.layers)[i].digest)

\* C6: index disambiguation.  In pullArtifact, pullArtifactStreams and
\* pullManifestForPlatform the JSON pulled for ref is treated as an index
\* exactly when it has a `manifests` field.  Without the field the parsed
\* manifest is used directly and no second manifest pull is issued; with it,
\* and no explicit platform, exactly one further pull is issued, a
\* pullImageManifest on the same ref, and its result supplies the layers.
C6_IndexDisambiguation ==
  \A n \in 1..Len(hist) :
    LET h == hist[n]
    IN  (/\ h.op.name \in {"pullArtifact", "pullArtifactStreams", "pullManifestForPlatform"}
         /\ FirstPullParsed(h)) =>
          /\ h.log[1].ref = h.op.ref
          /\ FirstDoc(h).manifests = None =>
               /\ Len(ManifestPulls(h)) = 1
               /\ IF h.op.name = "pullManifestForPlatform"
                  THEN h.ok /\ h.ret.text = h.log[1].text
                  ELSE LayersFrom(h, FirstDoc(h))
          /\ (FirstDoc(h).manifests # None /\ h.op.name # "pullManifestForPlatform") =>
               /\ Len(ManifestPulls(h)) = 2
               /\ h.log[2].call = "pullImageManifest"
               /\ h.log[2].ref = h.op.ref
               /\ (~h.log[2].ok \/ The(h.log[2].text).malformed) => (~h.ok /\ Len(h.log) = 2)
               /\ (h.log[2].ok /\ ~The(h.log[2].text).malformed) =>
                    LayersFrom(h, JsonParse(The(h.log[2].text)))

\* C6 witness: pullArtifact of an index has succeeded with the layers of the
\* manifest its second pull returned.
C6_Witness ==
  /\ Settled("pullArtifact") /\ Last.ok
  /\ FirstPullParsed(Last) /\ FirstDoc(Last).manifests # None
  /\ Len(ManifestPulls(Last)) = 2
  /\ Len(BlobsPulled(Last)) = 2
  /\ Len(Last.ret.paths) = 2

\* An index entry matches a platform: equal os and architecture, and equal
\* variant when either side gives one.
EntryMatches(entry, platform) ==
  /\ entry.platform # None
  /\ The(entry.platform).os = platform.os
  /\ The(entry.platform).architecture = platform.architecture
  /\ The(entry.platform).variant = platform.variant
MatchingEntries(index, platform) ==
  {k \in 1..Len(The(index.manifests)) : EntryMatches(The(index.manifests)[k], platform)}
ResolvedIndex(h) ==
  /\ h.op.name = "pullManifestForPlatform"
  /\ FirstPullParsed(h)
  /\ FirstDoc(h).manifests # None

\* C7: platform selection.  When pullManifestForPlatform(ref, platform) is
\* given a platform and ref resolves to an index, the manifest returned is
\* that of an index entry matching the requested platform, not of any other
\* entry.
C7_PlatformSelection ==
  \A n \in 1..Len(hist) :
    (ResolvedIndex(hist[n]) /\ hist[n].ok) =>
      \E k \in MatchingEntries(FirstDoc(hist[n]), The(hist[n].op.platform)) :
        ManifestDigest(The(hist[n].ret.text)) = The(FirstDoc(hist[n]).manifests)[k].digest

\* C8: pullManifestForPlatform(ref, platform) on an index fails with a
\* platform-not-found error, returning no manifest, whenever the index has no
\* entry matching the requested platform (an index with zero entries
\* included).
C8_PlatformNotFound ==
  \A n \in 1..Len(hist) :
    (/\ ResolvedIndex(hist[n])
     /\ MatchingEntries(FirstDoc(hist[n]), The(hist[n].op.platform)) = {}
     /\ hist[n].err # "NetworkFault") =>
      /\ ~hist[n].ok
      /\ hist[n].err = "PlatformNotFound"
      /\ hist[n].ret.text = None

Descriptors(manifest) ==
  {The(manifest.layers)[i] : i \in 1..Len(The(manifest.layers))} \cup manifest.config

\* The copy itself: the manifest stored at the target is the manifest stored
\* at the source (the one pushed), and every blob it references is in the
\* target's repository with the bytes it has in the source's.
CopyPreserves(push, copy) ==
  /\ ManifestAt(copy.op.target) = Some(PushedText(push))
  /\ ManifestAt(copy.op.target) = ManifestAt(copy.op.ref)
  /\ \A d \in Descriptors(PushedManifest(push)) :
       /\ BlobAt(copy.op.target, d.digest) # None
       /\ BlobAt(copy.op.target, d.digest) = BlobAt(copy.op.ref, d.digest)

\* C9: copy.  After pushArtifact to A and a successful copyArtifact(A, B) the
\* manifest stored at B is the manifest stored at A, every blob it references
\* is present in B's repository with the same bytes as in A's, and
\* pullArtifact(B) yields content byte-identical to what was pushed to A: one
\* file per pushed file, holding that file's bytes.
C9_Copy ==
  (/\ Len(hist) >= 2
   /\ hist[1].op.name = "pushArtifact" /\ hist[1].ok
   /\ hist[2].op.name = "copyArtifact" /\ hist[2].ok /\ hist[2].op.ref = hist[1].op.ref) =>
    /\ CopyPreserves(hist[1], hist[2])
    /\ (/\ Idle /\ Len(hist) = 3
        /\ hist[3].op.name = "pullArtifact" /\ hist[3].ok
        /\ hist[3].op.ref = hist[2].op.target) =>
         LET pushed == BlobPushes(hist[1])
             paths == hist[3].ret.paths
             n == Len(hist[1].op.files)
         IN  /\ Len(paths) = n
             /\ \A i \in 1..n :
                  /\ paths[i] \in DOMAIN files
                  /\ Some(files[paths[i]]) = pushed[i].data

\* C10: copyArtifact(source, target) on a source whose manifest JSON has a
\* `manifests` field fails with the unsupported-index error and leaves the
\* target untouched: no blob is pulled from the source and no blob or
\* manifest is pushed to the target.
C10_CopyIndexUnsupported ==
  (/\ Settled("copyArtifact")
   /\ FirstPullParsed(Last) /\ FirstDoc(Last).manifests # None) =>
    /\ ~Last.ok
    /\ Last.err = "UnsupportedIndex"
    /\ Len(Last.log) = 1
    /\ blobs = Last.op.before.blobs
    /\ tagged = Last.op.before.tagged

\* C10 witness: a copy whose source is an index has been refused.
C10_Witness ==
  /\ Settled("copyArtifact")
  /\ FirstPullParsed(Last) /\ FirstDoc(Last).manifests # None
  /\ Last.err = "UnsupportedIndex"

\* The map m (an optional annotations map of a document) has every entry of
\* the map supplied, the title key aside.
Carries(m, supplied) ==
  \A k \in DOMAIN supplied \ {TitleKey} :
    m # None /\ k \in DOMAIN The(m) /\ The(m)[k] = supplied[k]

\* C11: annotation preservation.  After a pushArtifact, when the reference is
\* pulled (pullManifest, pullArtifactStreams), each custom annotation supplied
\* on a FileLayer appears unchanged in that layer's annotations, in the
\* manifest and in the layer's stream, and each annotation supplied in the
\* push options appears unchanged in the manifest's annotations.
C11_AnnotationPreservation ==
  (/\ Idle /\ Len(hist) = 2
   /\ hist[1].op.name = "pushArtifact" /\ hist[1].ok
   /\ hist[2].op.name = "pullArtifactStreams" /\ hist[2].ok
   /\ hist[2].op.ref = hist[1].op.ref) =>
    LET push == hist[1].op
        supplied == push.given.heap
        manifest == JsonParse(The(hist[2].log[1].text))
        streams == hist[2].ret.streams
    IN  /\ hist[2].log[1].call = "pullManifest"
        /\ Len(The(manifest.layers)) = Len(push.files)
        /\ Len(streams) = Len(push.files)
        /\ \A i \in 1..Len(push.files) : \A o \in push.files[i].annotations :
             /\ Carries(The(manifest.layers)[i].annotations, supplied[o])
             /\ Carries(streams[i].annotations, supplied[o])
        /\ \A o \in push.opts.annotations :
             \A k \in DOMAIN supplied[o] :
               /\ manifest.annotations # None
               /\ k \in DOMAIN The(manifest.annotations)
               /\ The(manifest.annotations)[k] = supplied[o][k]

\* C11 witness: a file with a custom annotation was pushed with annotated
\* options, and the reference was pulled as streams.
C11_Witness ==
  /\ Idle /\ Len(hist) = 2
  /\ hist[1].op.name = "pushArtifact" /\ hist[1].ok
  /\ hist[2].op.name = "pullArtifactStreams" /\ hist[2].ok
  /\ hist[1].op.opts.annotations # None
  /\ \E i \in 1..Len(hist[1].op.files) :
       /\ hist[1].op.files[i].annotations # None
       /\ hist[2].ret.streams[i].annotations # None
       /\ "k" \in DOMAIN The(hist[2].ret.streams[i].annotations)

\* C12: for every file list passed to pushArtifact, lists in which several
\* FileLayers carry the same annotations map included, the i-th layer
\* descriptor of the pushed manifest has the title annotation equal to the
\* i-th FileLayer's title, or to the base name of its path when the title is
\* absent, and mediaType equal to the FileLayer's mediaType, or
\* application/octet-stream when absent.
C12_TitleAndMediaType ==
  (Settled("pushArtifact") /\ Last.ok) =>
    \A i \in 1..Len(Last.op.files) :
      LET fileLayer == Last.op.files[i]
          layer == The(PushedManifest(Last).layers)[i]
      IN  /\ layer.annotations # None
          /\ TitleKey \in DOMAIN The(layer.annotations)
          /\ The(layer.annotations)[TitleKey] = TitleOf(fileLayer)
          /\ layer.mediaType =
               IF fileLayer.mediaType = None THEN OctetStream ELSE The(fileLayer.mediaType)

\* The operations that have run or are running, each with the transport
\* calls it has completed.
Runs ==
  {[op |-> hist[n].op, log |-> hist[n].log, ok |-> hist[n].ok] : n \in 1..Len(hist)}
    \cup {[op |-> op, log |-> log, ok |-> FALSE]}
\* A call was made only after every earlier call had completed successfully.
OneAtATime(calls) == \A j \in 1..(Len(calls) - 1) : calls[j].ok
\* The calls of a pushArtifact: the layers in input order, the config, the
\* manifest.
PushCallsInOrder(r) ==
  LET n == Len(r.op.files)
  IN  /\ Len(r.log) <= n + 2
      /\ r.ok => Len(r.log) = n + 2
      /\ \A j \in 1..Len(r.log) :
           /\ r.log[j].ref = r.op.ref
           /\ j <= n =>
                /\ r.log[j].call = "pushBlob"
                /\ r.log[j].data = Some(r.op.given.files[r.op.files[j].path])
           /\ j = n + 1 => (r.log[j].call = "pushBlob" /\ r.log[j].data = Some(ConfigData))
           /\ j = n + 2 => r.log[j].call = "pushManifest"
\* The calls of a pull: the manifest pulls, then the layers' blobs in layer
\* order.
PullCallsInOrder(r) ==
  LET pulls == CallsNamed(r.log, {"pullManifest", "pullImageManifest"})
      got == CallsNamed(r.log, {"pullBlob"})
  IN  /\ r.log = pulls \o got
      /\ got # <<>> =>
           LET text == The(pulls[Len(pulls)].text)
               layers == The(JsonParse(text).layers)
           IN  /\ Len(got) <= Len(layers)
               /\ \A i \in 1..Len(got) : got[i].digest = Some(layers[i].digest)
\* The calls of a copy: the manifest pull, a pull from the source and a push
\* to the target for each blob in turn, the manifest push.
CopyCallsInOrder(r) ==
  \A j \in 1..Len(r.log) :
    /\ j = 1 => r.log[j].call = "pullManifest"
    /\ (j > 1 /\ j % 2 = 0 /\ r.log[j].call # "pushManifest") =>
         (r.log[j].call = "pullBlob" /\ r.log[j].ref = r.op.ref)
    /\ (j > 1 /\ j % 2 = 1) =>
         /\ r.log[j].call = "pushBlob" /\ r.log[j].ref = r.op.target
         /\ r.log[j].digest = r.log[j - 1].digest
         /\ r.log[j].data = r.log[j - 1].data
    /\ r.log[j].call = "pushManifest" => (j = Len(r.log) /\ j % 2 = 0)

\* C13: a successful pushArtifact over n files issues exactly n layer blob
\* pushes in input order, then exactly one config blob push, then exactly one
\* manifest push; and within pushArtifact, pullArtifact, pullArtifactStreams
\* and copyArtifact the transport calls are made one at a time, each after
\* the one before has completed, layer blobs being pulled in manifest layer
\* order.
C13_Sequencing ==
  \A r \in Runs :
    /\ r.op.name \in {"pushArtifact", "pullArtifact", "pullArtifactStreams", "copyArtifact"}
         => OneAtATime(r.log)
    /\ r.op.name = "pushArtifact" => PushCallsInOrder(r)
    /\ r.op.name \in {"pullArtifact", "pullArtifactStreams"} => PullCallsInOrder(r)
    /\ r.op.name = "copyArtifact" => CopyCallsInOrder(r)

\* C13 witness: a push of two different files has succeeded with four calls,
\* and a pull of their two layers after it.
C13_Witness ==
  /\ Idle /\ Len(hist) = 2
  /\ hist[1].op.name = "pushArtifact" /\ hist[1].ok /\ Len(hist[1].log) = 4
  /\ hist[1].log[1].data # hist[1].log[2].data
  /\ hist[2].op.name = "pullArtifact" /\ hist[2].ok /\ Len(hist[2].log) = 3

TransportErrors == {"NetworkFault", "ManifestNotFound", "BlobNotFound", "DigestRejected"}
\* The manifest text the operation's last call returned cannot be parsed.
LastPullMalformed(h) ==
  /\ h.log # <<>>
  /\ h.log[Len(h.log)].call \in {"pullManifest", "pullImageManifest"}
  /\ h.log[Len(h.log)].ok
  /\ The(h.log[Len(h.log)].text).malformed
\* The first file of a push that could not be read, 0 when all could.
FirstUnreadable(o) ==
  LET missing == {k \in 1..Len(o.files) : o.files[k].path \notin DOMAIN o.given.files}
  IN  IF missing = {} THEN 0 ELSE CHOOSE k \in missing : \A j \in missing : k <= j

\* C14: no local retry and no silent recovery.  In pushArtifact, pullArtifact,
\* pullArtifactStreams and copyArtifact the first failing step (a transport
\* call, a file read, the parse of a malformed manifest) is attempted exactly
\* once, the operation ends in failure with that error, and no transport call
\* or file write follows; a malformed manifest makes pullArtifact fail before
\* any blob is pulled or the output directory is created.
C14_NoRetry ==
  \A n \in 1..Len(hist) :
    LET h == hist[n]
        last == h.log[Len(h.log)]
    IN  h.op.name \in {"pushArtifact", "pullArtifact", "pullArtifactStreams", "copyArtifact"} =>
          \* a failed call is the last call, and it fails the operation
          /\ \A j \in 1..Len(h.log) :
               ~h.log[j].ok => (j = Len(h.log) /\ ~h.ok /\ h.err \in TransportErrors)
          /\ (~h.ok /\ h.err \in TransportErrors) => (h.log # <<>> /\ ~last.ok)
          \* a malformed manifest fails the operation at the pull that returned it
          /\ LastPullMalformed(h) => (~h.ok /\ h.err = "ManifestParseError")
          /\ \A j \in 1..(Len(h.log) - 1) :
               h.log[j].call \in {"pullManifest", "pullImageManifest"}
                 => ~The(h.log[j].text).malformed
          \* a file that cannot be read fails the push after the pushes before it
          /\ (h.op.name = "pushArtifact" /\ FirstUnreadable(h.op) > 0
              /\ Len(h.log) >= FirstUnreadable(h.op) - 1
              /\ \A j \in 1..Len(h.log) : h.log[j].ok) =>
               (~h.ok /\ h.err = "FileNotFound" /\ Len(h.log) = FirstUnreadable(h.op) - 1)
          /\ (n = Len(hist) /\ Idle /\ h.op.name = "pullArtifact" /\ LastPullMalformed(h)) =>
               /\ CallsNamed(h.log, {"pullBlob"}) = <<>>
               /\ dirs = h.op.given.dirs
               /\ files = h.op.given.files

\* C14 witness: pullArtifact has failed on a malformed manifest.
C14_Witness ==
  /\ Settled("pullArtifact")
  /\ LastPullMalformed(Last)
  /\ Last.err = "ManifestParseError"
  /\ Len(Last.log) = 1
  /\ OutDir \notin dirs

\* The commands that have ended.
Commands == {n \in 1..Len(hist) : hist[n].op.cli # "none" /\ hist[n].cli.exit # None}
\* What the command was asked to do could not be done: a file is missing, the
\* artifact or one of its blobs does not exist or cannot be used, a transport
\* call failed.
FailureReported(h) ==
  \/ \E j \in 1..Len(h.log) : ~h.log[j].ok
  \/ \E i \in 1..Len(h.op.files) : h.op.files[i].path \notin DOMAIN h.op.given.files
  \/ h.err # "none"
SuccessLine(h) ==
  CASE h.op.cli = "oras push" -> <<"Pushed">>
    [] h.op.cli = "oras pull" -> <<"Pulled">>
    [] h.op.cli = "oras push-multiplatform" -> <<"Pushed multi-platform artifact">>
    [] h.op.cli = "oras manifest-index create" -> <<"Created manifest index">>
    [] h.op.cli = "oras pull-platform" -> <<"Downloaded">>
    [] OTHER -> <<"Copied successfully">>
Printed(lines) == {lines[i] : i \in 1..Len(lines)}

\* C15: every CLI command exits with code 0 exactly when its underlying
\* operation succeeded, and with a non-zero code when any failure was
\* reported (a missing local file, an artifact that does not exist, a
\* transport error); a command never prints its success line after a failure.
C15_ExitCodes ==
  \A n \in Commands :
    LET h == hist[n]
    IN  /\ h.cli.exit # None
        /\ The(h.cli.exit) = 0 <=> h.ok
        /\ FailureReported(h) => (The(h.cli.exit) # 0 /\ h.cli.stderr # <<>>)
        /\ The(h.cli.exit) # 0 => SuccessLine(h) \notin Printed(h.cli.stdout)
        /\ The(h.cli.exit) = 0 =>
             /\ SuccessLine(h) \in Printed(h.cli.stdout)
             /\ h.cli.stderr = <<>>
             /\ h.log # <<>> /\ \A j \in 1..Len(h.log) : h.log[j].ok

\* C15 witness: `oras push` of two files has exited 0, and an `oras pull`
\* after it has failed in the network and exited 1.
C15_Witness ==
  /\ Idle /\ Len(hist) = 2
  /\ hist[1].op.cli = "oras push" /\ hist[1].cli.exit = Some(0) /\ Len(hist[1].op.files) = 2
  /\ hist[2].op.cli = "oras pull" /\ hist[2].cli.exit = Some(1)
  /\ hist[2].err = "NetworkFault"

\* A single file holding 'Hello from ORAS test 1!' was pushed with no explicit
\* media type.
HelloPushed ==
  /\ Settled("pushArtifact") /\ Last.ok
  /\ Len(Last.op.files) = 1
  /\ Last.op.files[1].mediaType = None
  /\ Last.op.given.files[Last.op.files[1].path] = HelloBytes
HelloLayer == The(PushedManifest(Last).layers)[1]

\* C16 (as stated): pushing a single file containing the bytes
\* "Hello from ORAS test 1!" with no explicit media type yields a layer
\* descriptor with mediaType application/octet-stream, the sha256 digest of
\* the bytes, and size 24.
C16_HelloDescriptorAsStated ==
  HelloPushed =>
    /\ HelloLayer.mediaType = "application/octet-stream"
    /\ HelloLayer.digest = Sha256(HelloBytes)
    /\ HelloLayer.size = 24

\* C16 (amended): the same push yields a layer descriptor with mediaType
\* application/octet-stream, the sha256 digest of the bytes, and size 23, the
\* number of bytes of "Hello from ORAS test 1!".
C16_HelloDescriptor ==
  HelloPushed =>
    /\ HelloLayer.mediaType = "application/octet-stream"
    /\ HelloLayer.digest = Sha256(HelloBytes)
    /\ HelloLayer.digest = The(Last.log[1].digest)
    /\ Last.log[1].data = Some(HelloBytes)
    /\ HelloLayer.size = 23

\* C16 witness: the file has been pushed on its own.
C16_Witness == HelloPushed /\ Len(HelloBytes) = 23 /\ HelloLayer.size = Len(HelloBytes)

\* The manifest a pull resolved to: the document of its last manifest pull.
ResolvedManifest(h) ==
  LET pulls == ManifestPulls(h)
  IN  JsonParse(The(pulls[Len(pulls)].text))

\* C17: whenever resolution in pullArtifact or pullArtifactStreams succeeds,
\* on the index path as on the plain-manifest path, the resolved image
\* manifest has a non-empty layers list, so the operation returns at least one
\* file or layer stream.
C17_NonEmptyLayers ==
  \A n \in 1..Len(hist) :
    (hist[n].op.name \in {"pullArtifact", "pullArtifactStreams"} /\ hist[n].ok) =>
      /\ ResolvedManifest(hist[n]).layers # None
      /\ The(ResolvedManifest(hist[n]).layers) # <<>>
      /\ hist[n].ret.paths # <<>> \/ hist[n].ret.streams # <<>>

\* C18: pushManifestIndex(ref, manifests, annotations) pushes exactly one
\* document, with schemaVersion 2, the OCI image index media type, the given
\* annotations, and one entry per input descriptor in input order carrying
\* that descriptor's mediaType, digest, size and annotations; no entry carries
\* the input's platform.
C18_PushManifestIndex ==
  (Settled("pushManifestIndex") /\ Last.ok) =>
    LET index == PushedManifest(Last)
        input == Last.op.manifests
        supplied == Last.op.given.heap
    IN  /\ Len(Last.log) = 1
        /\ Last.log[1].call = "pushManifest" /\ Last.log[1].ref = Last.op.ref
        /\ ManifestAt(Last.op.ref) = Last.log[1].text
        /\ index.schemaVersion = Some(2)
        /\ index.mediaType = Some("application/vnd.oci.image.index.v1+json")
        /\ index.annotations = {supplied[o] : o \in Last.op.opts.annotations}
        /\ index.layers = None /\ index.config = None
        /\ index.manifests # None
        /\ Len(The(index.manifests)) = Len(input)
        /\ \A i \in 1..Len(input) :
             LET entry == The(index.manifests)[i]
             IN  /\ entry.mediaType = input[i].mediaType
                 /\ entry.digest = input[i].digest
                 /\ entry.size = input[i].size
                 /\ entry.annotations = {supplied[o] : o \in input[i].annotations}
                 /\ entry.platform = None

\* C18 witness: an index of two descriptors with different platforms, one of
\* them annotated, has been pushed with annotations.
C18_Witness ==
  /\ Settled("pushManifestIndex") /\ Last.ok
  /\ Len(Last.op.manifests) = 2
  /\ Last.op.manifests[1].platform # Last.op.manifests[2].platform
  /\ Last.op.manifests[1].annotations # Last.op.manifests[2].annotations
  /\ Last.op.opts.annotations # None
  /\ PushedManifest(Last).annotations # None

\* C19: pullArtifactStreams(ref) returns exactly one LayerStream per layer of
\* the resolved manifest, in layer order; the i-th stream's data is the blob
\* pulled for the i-th layer's digest, its mediaType, digest and annotations
\* are those of the i-th layer descriptor, and its filename is the layer's
\* title annotation when present and absent otherwise.
C19_LayerStreams ==
  \A n \in 1..Len(hist) :
    (hist[n].op.name = "pullArtifactStreams" /\ hist[n].ok) =>
      LET h == hist[n]
          layers == The(ResolvedManifest(h).layers)
          streams == h.ret.streams
          pulled == BlobsPulled(h)
      IN  /\ Len(streams) = Len(layers)
          /\ Len(pulled) = Len(layers)
          /\ \A i \in 1..Len(layers) :
               /\ pulled[i].ref = h.op.ref
               /\ pulled[i].digest = Some(layers[i].digest)
               /\ Some(streams[i].data) = pulled[i].data
               /\ streams[i].mediaType = layers[i].mediaType
               /\ streams[i].digest = layers[i].digest
               /\ streams[i].annotations = layers[i].annotations
               /\ streams[i].filename =
                    IF layers[i].annotations # None
                         /\ "org.opencontainers.image.title" \in DOMAIN The(layers[i].annotations)
                    THEN Some(The(layers[i].annotations)["org.opencontainers.image.title"])
                    ELSE None

\* C19 witness: two streams were returned, of different blobs, the first of a
\* layer without a title and the second of a layer with one.
C19_Witness ==
  /\ Settled("pullArtifactStreams") /\ Last.ok
  /\ Len(Last.ret.streams) = 2
  /\ Last.ret.streams[1].data # Last.ret.streams[2].data
  /\ Last.ret.streams[1].filename = None
  /\ Last.ret.streams[2].filename = Some(<<"b.bin">>)

\* Every blob push the client has made, in any operation.
AllBlobPushes ==
  UNION {{r.log[j] : j \in {k \in 1..Len(r.log) : r.log[k].call = "pushBlob"}} : r \in Runs}

\* C20: digest determinism.  Every digest the client computes (pushBlob,
\* pushArtifact layers and config) is the sha256 digest of the bytes and a
\* function of the bytes alone: whatever the order of calls and the operations
\* before, the same bytes get the same digest, the empty sequence included;
\* and pushBlob followed by pullBlob with the digest returned gives the bytes
\* back.
C20_DigestDeterminism ==
  /\ \A c \in AllBlobPushes :
       /\ c.digest # None /\ c.data # None
       /\ The(c.digest).alg = "sha256"
       /\ The(c.digest) = Sha256(The(c.data))
  /\ \A c, d \in AllBlobPushes : c.data = d.data => c.digest = d.digest
  /\ \A n \in 1..Len(hist) :
       (hist[n].op.name = "pushBlob" /\ hist[n].ok) =>
         /\ hist[n].ret.digest = hist[n].log[1].digest
         /\ hist[n].log[1].data = hist[n].op.data
  /\ (/\ Len(hist) = 2
      /\ hist[1].op.name = "pushBlob" /\ hist[1].ok
      /\ hist[2].op.name = "pullBlob" /\ hist[2].op.digest = hist[1].ret.digest) =>
       /\ hist[2].ok \/ hist[2].err = "NetworkFault"
       /\ hist[2].ok => hist[2].ret.data = hist[1].op.data

\* C20 witness: the empty byte sequence was pushed as a blob and pulled back
\* by the digest returned.
C20_Witness ==
  /\ Idle /\ Len(hist) = 2
  /\ hist[1].op.name = "pushBlob" /\ hist[1].ok /\ hist[1].op.data = Some(<<>>)
  /\ hist[2].op.name = "pullBlob" /\ hist[2].ok
  /\ hist[2].op.digest = hist[1].ret.digest
  /\ hist[2].ret.data = Some(<<>>)

\* The successful manifest pushes of pushArtifact and copyArtifact so far, each
\* with the calls its operation made before it.
ManifestPushes ==
  UNION {{[ref |-> r.log[j].ref, text |-> The(r.log[j].text), earlier |-> SubSeq(r.log, 1, j - 1)] :
            j \in {k \in 1..Len(r.log) : r.log[k].call = "pushManifest" /\ r.log[k].ok}} :
         r \in {q \in Runs : q.op.name \in {"pushArtifact", "copyArtifact"}}}

\* C21: referential integrity.  In every reachable state, whatever step of a
\* pushArtifact or copyArtifact has failed, every manifest these operations
\* have stored at a reference references only layer and config blobs present
\* in that reference's repository: each was pushed there, successfully, by the
\* same operation before it pushed the manifest.
C21_ReferentialIntegrity ==
  \A p \in ManifestPushes :
    /\ p.text \in {s.text : s \in {x \in stored : x.repo = Repo(p.ref)}}
    /\ \A j \in 1..Len(p.earlier) : p.earlier[j].ok
    /\ \A d \in Descriptors(JsonParse(p.text)) :
         /\ BlobAt(p.ref, d.digest) # None
         /\ \E j \in 1..Len(p.earlier) :
              /\ p.earlier[j].call = "pushBlob" /\ p.earlier[j].ref = p.ref
              /\ p.earlier[j].digest = Some(d.digest)

\* C21 witness: a push of two layers was copied, and a third operation then
\* failed in the network.
C21_Witness ==
  /\ Idle /\ Len(hist) = 3
  /\ hist[1].op.name = "pushArtifact" /\ hist[1].ok /\ Len(hist[1].op.files) = 2
  /\ hist[2].op.name = "copyArtifact" /\ hist[2].ok
  /\ ~hist[3].ok /\ hist[3].err = "NetworkFault"
  /\ Cardinality(ManifestPushes) = 2

\* pushArtifact run on its own over the first files of a list, from the heap
\* h: the heap and the layer descriptors it ends with.
RECURSIVE AloneLayers(_, _, _)
AloneLayers(fileLayers, given, h) ==
  IF fileLayers = <<>> THEN [heap |-> h, layerDescriptors |-> <<>>]
  ELSE LET front == AloneLayers(SubSeq(fileLayers, 1, Len(fileLayers) - 1), given, h)
           fileLayer == fileLayers[Len(fileLayers)]
           content == given[fileLayer.path]
       IN  [heap |-> HeapWithTitle(fileLayer, front.heap),
            layerDescriptors |->
              Append(front.layerDescriptors, LayerDescriptor(fileLayer, content, front.heap))]
\* The manifest text the operation o pushes when nothing else runs.
AloneText(o) ==
  LET end == AloneLayers(o.files, o.given.files, o.given.heap)
  IN  JsonStringify(ImageManifest(o.opts, end.layerDescriptors), end.heap)
Succeeded == {n \in 1..Len(hist) : hist[n].ok}

\* C22: two pushArtifact operations started on the same client against the
\* same reference need no locking.  Under every interleaving of their
\* transport calls, each operation pushes the manifest it would have pushed
\* alone, the manifest finally stored at the reference is exactly one of the
\* two, and all blobs it references are present.
C22_NoLocking ==
  /\ \A n \in Succeeded : PushedText(hist[n]) = AloneText(hist[n].op)
  /\ (Len(hist) = 2 /\ Succeeded # {}) =>
       /\ \E n \in Succeeded : ManifestAt(hist[n].op.ref) = Some(AloneText(hist[n].op))
       /\ \A d \in Descriptors(JsonParse(The(ManifestAt(RefA)))) : BlobAt(RefA, d.digest) # None

\* C23: when pullManifestForPlatform(ref, platform) resolves an index, the
\* second pull uses a digest-qualified reference that names the same registry
\* and the same repository as ref, with the digest of an entry of the index,
\* so the manifest it fetches is the one that entry of ref's repository points
\* to.
C23_PlatformReference ==
  \A n \in 1..Len(hist) :
    (ResolvedIndex(hist[n]) /\ Len(hist[n].log) >= 2) =>
      LET second == hist[n].log[2]
          entries == The(FirstDoc(hist[n]).manifests)
      IN  /\ second.call = "pullManifest"
          /\ second.ref.path = hist[n].op.ref.path
          /\ second.ref.digest \in {Some(entries[k].digest) : k \in 1..Len(entries)}
          /\ second.ok =>
               /\ ManifestDigest(The(second.text)) = The(second.ref.digest)
               /\ [repo |-> Repo(hist[n].op.ref), text |-> The(second.text)] \in stored

\* C24: in every pushArtifact call the config blob pushed is the minimal empty
\* JSON object (the 2 bytes "{}"), pushed exactly once, after all layer blobs
\* and before the manifest, and the manifest's config descriptor carries that
\* blob's digest and size 2; a configMediaType of the caller replaces only the
\* descriptor's mediaType (application/vnd.oci.empty.v1+json by default) and
\* configAnnotations only its annotations.
C24_ConfigBlob ==
  \A r \in Runs :
    r.op.name = "pushArtifact" =>
      LET n == Len(r.op.files)
          configPushes == {j \in 1..Len(r.log) : r.log[j].data = Some(<<123, 125>>)}
      IN  /\ configPushes \subseteq {n + 1}
          /\ Len(r.log) > n => configPushes = {n + 1}
          /\ \A j \in configPushes :
               /\ r.log[j].call = "pushBlob" /\ r.log[j].ref = r.op.ref
               /\ r.log[j].digest = Some(Sha256(<<123, 125>>))
               /\ \A k \in 1..(j - 1) : r.log[k].call = "pushBlob" /\ r.log[k].ok
          /\ \A j \in 1..Len(r.log) :
               r.log[j].call = "pushManifest" =>
                 LET config == The(JsonParse(The(r.log[j].text)).config)
                     supplied == r.op.given.heap
                 IN  /\ j = n + 2 /\ r.log[n + 1].ok
                     /\ config.digest = The(r.log[n + 1].digest)
                     /\ config.size = 2
                     /\ config.mediaType =
                          IF r.op.opts.configMediaType = None
                          THEN "application/vnd.oci.empty.v1+json"
                          ELSE The(r.op.opts.configMediaType)
                     /\ config.annotations = {supplied[o] : o \in r.op.opts.configAnnotations}
                     /\ config.urls = None /\ config.platform = None

\* C24 witness: a push of two files with a config media type and config
\* annotations of the caller's has succeeded.
C24_Witness ==
  /\ Settled("pushArtifact") /\ Last.ok
  /\ Len(Last.op.files) = 2
  /\ Last.op.opts.configMediaType = Some(ExampleConfigType)
  /\ The(PushedManifest(Last).config).mediaType = ExampleConfigType
  /\ The(PushedManifest(Last).config).annotations # None

\* The references of the calls pushArtifactMultiPlatform makes when nothing
\* fails: for each platform in input order, those of its layer blobs, its
\* config blob, its manifest and the pull of that manifest, all to the
\* platform's tag.
RECURSIVE PlatformCallRefs(_, _)
PlatformCallRefs(imageRef, platformArtifacts) ==
  IF platformArtifacts = <<>> THEN <<>>
  ELSE LET n == Len(platformArtifacts)
           platform == platformArtifacts[n][1]
           tag == [path |-> imageRef.path, digest |-> None,
                   tag |-> {t \o <<platform.os, platform.architecture>> : t \in imageRef.tag}]
       IN  PlatformCallRefs(imageRef, SubSeq(platformArtifacts, 1, n - 1))
             \o [j \in 1..(Len(platformArtifacts[n][2]) + 3) |-> tag]
MultiPlatformRuns == {r \in Runs : r.op.name = "pushArtifactMultiPlatform"}
\* The manifests the operation pushed to platform tags, and its index pushes.
PlatformManifests(r) ==
  SelectSeq(r.log, LAMBDA c : c.call = "pushManifest" /\ c.ok /\ c.ref # r.op.ref)
IndexPushes(r) == {j \in 1..Len(r.log) : r.log[j].call = "pushManifest" /\ r.log[j].ref = r.op.ref}

\* C25: pushArtifactMultiPlatform(ref, platformArtifacts) pushes the platform
\* artifacts one at a time in input order, each to the tag
\* <ref>-<os>-<architecture>, and pushes the index to ref only after every
\* platform artifact was pushed; the index has exactly one entry per input
\* platform in input order, and if pushing any platform artifact fails the
\* index is never pushed and the operation fails.
C25_MultiPlatformOrder ==
  \A r \in MultiPlatformRuns :
    LET input == r.op.platformArtifacts
        expected == PlatformCallRefs(r.op.ref, input) \o <<r.op.ref>>
    IN  /\ Len(r.log) <= Len(expected)
        /\ \A j \in 1..Len(r.log) : r.log[j].ref = expected[j]
        /\ OneAtATime(r.log)
        /\ r.ok => (Len(r.log) = Len(expected) /\ r.log[Len(r.log)].ok)
        /\ \A j \in IndexPushes(r) :
             /\ j = Len(expected)
             /\ Len(PlatformManifests(r)) = Len(input)
             /\ LET index == JsonParse(The(r.log[j].text))
                IN  /\ index.manifests # None
                    /\ Len(The(index.manifests)) = Len(input)
                    /\ \A k \in 1..Len(input) :
                         The(index.manifests)[k].digest
                           = ManifestDigest(The(PlatformManifests(r)[k].text))
        /\ (\E j \in 1..Len(r.log) : ~r.log[j].ok /\ j < Len(expected)) => IndexPushes(r) = {}
        /\ \A n \in 1..Len(hist) :
             (hist[n].op = r.op /\ hist[n].log = r.log /\ Len(r.log) < Len(expected)) =>
               (~hist[n].ok /\ IndexPushes(r) = {})

\* C25 witness: two platform artifacts were pushed and then the index with
\* their two manifests.
C25_Witness ==
  /\ Settled("pushArtifactMultiPlatform") /\ Last.ok
  /\ Len(Last.op.platformArtifacts) = 2
  /\ Last.op.platformArtifacts[1][1] = LinuxAmd64 /\ Last.op.platformArtifacts[2][1] = LinuxArm64
  /\ Len(The(PushedManifest(Last).manifests)) = 2
  /\ The(PushedManifest(Last).manifests)[1].digest # The(PushedManifest(Last).manifests)[2].digest

\* An index entry describes a manifest stored in the repository: its digest is
\* the digest of the manifest's bytes and its size their number.
DescribesStored(entry, repo) ==
  \E s \in stored :
    /\ s.repo = repo
    /\ entry.digest = ManifestDigest(s.text)
    /\ entry.size = TextLen(s.text)

\* C26: after a successful pushArtifactMultiPlatform, and after the CLI's
\* `manifest-index create`, every entry of the pushed index satisfies the
\* descriptor invariant: its digest is the digest of a manifest stored in the
\* registry (the manifest pushed for the corresponding platform, also when two
\* input platforms share os and architecture and differ only in variant) and
\* its size is that manifest's exact byte length.
C26_IndexEntries ==
  \A n \in 1..Len(hist) :
    LET h == hist[n]
    IN  (/\ h.ok
         /\ h.op.name = "pushArtifactMultiPlatform" \/ h.op.cli = "oras manifest-index create") =>
          LET entries == The(PushedManifest(h).manifests)
              pushed == PlatformManifests([op |-> h.op, log |-> h.log, ok |-> h.ok])
          IN  /\ \A k \in 1..Len(entries) : DescribesStored(entries[k], Repo(h.op.ref))
              /\ h.op.name = "pushArtifactMultiPlatform" =>
                   \A k \in 1..Len(entries) :
                     /\ entries[k].digest = ManifestDigest(The(pushed[k].text))
                     /\ entries[k].size = TextLen(The(pushed[k].text))

IsPrefix(p, q) == Len(p) <= Len(q) /\ SubSeq(q, 1, Len(p)) = p
PullArtifactRuns ==
  {n \in 1..Len(hist) : hist[n].op.name = "pullArtifact" /\ hist[n].ok}
\* The layers of the manifest a settled pullArtifact resolved: its last
\* manifest pull's document.
ResolvedLayers(h) ==
  LET pulls == CallsNamed(h.log, {"pullManifest", "pullImageManifest"})
  IN  The(JsonParse(The(pulls[Len(pulls)].text)).layers)

\* C27: every file pullArtifact(ref, outputDir) writes lies inside outputDir,
\* whatever the layer titles of the manifest contain (path separators and
\* ".." included): the files the call created and the paths it returns all
\* have outputDir as a proper prefix, and a layer with no title is written
\* under its digest without the "sha256:" prefix.
C27_WritesInsideOutputDir ==
  /\ \A q \in DOMAIN files \ DOMAIN InitialFiles : IsPrefix(OutDir, q) /\ q # OutDir
  /\ \A n \in PullArtifactRuns :
       LET layers == ResolvedLayers(hist[n])
           paths == hist[n].ret.paths
       IN  /\ Len(paths) = Len(layers)
           /\ \A i \in 1..Len(paths) :
                /\ IsPrefix(hist[n].op.outputDir, paths[i])
                /\ TitleAnnotation(layers[i]) = None
                     => paths[i] = hist[n].op.outputDir \o StripSha256Prefix(layers[i].digest)

\* C28: after a successful pullArtifact the file at the i-th returned path
\* holds the bytes of the i-th layer of the resolved manifest, and no layer's
\* file was overwritten by another layer's, equal titles included: the
\* returned paths are pairwise distinct.
C28_FilesHoldLayers ==
  (Settled("pullArtifact") /\ Last.ok) =>
    LET layers == ResolvedLayers(Last)
        pulled == OkCalls(Last.log, "pullBlob")
        paths == Last.ret.paths
    IN  /\ Len(paths) = Len(layers)
        /\ Len(pulled) = Len(layers)
        /\ \A i \in 1..Len(layers) :
             /\ The(pulled[i].digest) = layers[i].digest
             /\ paths[i] \in DOMAIN files
             /\ files[paths[i]] = The(pulled[i].data)
        /\ \A i, j \in 1..Len(layers) : i # j => paths[i] # paths[j]

InputsUnchanged(given) == \A o \in DOMAIN given.heap : heap[o] = given.heap[o]
\* The annotations the descriptor of file i was built with: the FileLayer's
\* own, as the caller gave them, and the title of file i.
BuiltAnnotations(given, fileLayer) ==
  MapSet(IF fileLayer.annotations = None THEN EmptyMap
         ELSE given.heap[The(fileLayer.annotations)],
         TitleKey, LayerTitle(fileLayer))

\* C29: pushArtifact leaves its inputs unchanged: while it runs and once it
\* has settled, every annotations object the caller passed (in a FileLayer
\* or in the options) holds what it held at the call; and the layer
\* descriptor built for file i is not modified while later files are
\* processed: it keeps the annotations it was built with.
C29_InputsUnchanged ==
  /\ op.name = "pushArtifact" =>
       /\ InputsUnchanged(op.given)
       /\ \A i \in 1..Len(loc.layerDescriptors) :
            /\ loc.layerDescriptors[i].annotations # None
            /\ heap[The(loc.layerDescriptors[i].annotations)]
                 = BuiltAnnotations(op.given, op.files[i])
  /\ Settled("pushArtifact") => InputsUnchanged(Last.op.given)

\* The runs of `oras pull-platform` that got through both of its client
\* calls: n is the pullManifestForPlatform, n + 1 the pullArtifact.
PullPlatformRuns ==
  {n \in 1..(Len(hist) - 1) :
     /\ hist[n].op.cli = "oras pull-platform"
     /\ hist[n].op.name = "pullManifestForPlatform"
     /\ hist[n].ok
     /\ hist[n].cli.exit = None
     /\ hist[n + 1].op.name = "pullArtifact"
     /\ hist[n + 1].ok}
LayerDigests(manifest) ==
  IF manifest.layers = None THEN {}
  ELSE {The(manifest.layers)[i].digest : i \in 1..Len(The(manifest.layers))}
Downloaded(h) ==
  {The(OkCalls(h.log, "pullBlob")[i].digest) : i \in 1..Len(OkCalls(h.log, "pullBlob"))}

\* C30: the CLI command pull-platform materializes the layers of the same
\* manifest it resolved and reported: in a run that succeeds, the set of
\* blobs downloaded equals the set of layers of the manifest that
\* pullManifestForPlatform returned.
C30_PullPlatformSameManifest ==
  \A n \in PullPlatformRuns :
    Downloaded(hist[n + 1]) = LayerDigests(JsonParse(The(hist[n].ret.text)))
====
